---- MODULE Spec2Model ----
(***************************************************************************)
(* DiffScribe: the diff parser (src/core/diff-parser.ts), the two          *)
(* full-file reconstruction engines (MarkdownRenderer in the core, and     *)
(* renderMarkdown / getFullFileContent in the extension) and the mode      *)
(* renderer, as state machines over bounded inputs.                        *)
(*                                                                         *)
(* A JavaScript string is a sequence of one-character strings, so that     *)
(* startsWith, split, join, the regular expressions and parseInt are       *)
(* computed on the text itself.                                            *)
(***************************************************************************)
EXTENDS Integers, Sequences, FiniteSets, TLC

VARIABLES
    source,     \* the diff the text was written from (files, hunks, body lines, blobs)
    diffText,   \* the raw diff text handed to splitByFile
    parsed,     \* the DiffFile[] returned by splitByFile
    extParsed,  \* the DiffFile[] returned by splitByFile of the extension, once it
                \* has run: <<>> before, <<files>> after
    changes,    \* parser run: the {additions, deletions} returned by countChanges
    lineNumbers, \* parser run: per file, the {old, new} returned by getChangedLineNumbers
    ppc,        \* "text" | "parsed" | "counted" | "numbered" (parser run) | "rendered"
    engine,     \* render run: "core" (MarkdownRenderer) | "ext" (extension renderMarkdown)
    meta,       \* render run: CommitMeta; hash = <<>> for a staged change set
    repo,       \* render run: per file, the blobs git show finds (after, before)
    options,    \* render run: [maxFileBytes, detectBinary]
    mode,       \* render run: "full" | "hunks"
    output,     \* render run: the lines pushed, in order
    calls,      \* reconstruction run: the full-mode reconstructions made so far, in
                \* order, each with its request and the block it returned
    analyses,   \* ContextManager.analyses: the Map, as its values in insertion order
    fileIndex,  \* ContextManager.fileIndex: file -> the commit hashes, in insertion order
    authorIndex, \* ContextManager.authorIndex: author -> the commit hashes
    timeIndex,  \* ContextManager.timeIndex: the Map's [timestamp, hash] entries in order
    now,        \* context run: Date.now(), in days
    lastCall,   \* context run: the last call made on the manager and what it returned
    stream,     \* getFileContentStreaming: its locals chunks, totalSize, truncated and
                \* options.maxBytes
    git,        \* streaming run: the spawned git show, with what it is still to write
    promise,    \* streaming run: the promise getFileContentStreaming returned
    timeoutId,  \* streaming run: the timer of setTimeout: "armed" | "fired" | "cleared"
    executed,   \* command run: the execFile('git', ...) calls made so far, in order
    gitResult   \* command run: the last safeGitCommand call and how it ended

vars == <<source, diffText, parsed, extParsed, changes, lineNumbers, ppc,
          engine, meta, repo, options, mode, output, calls,
          analyses, fileIndex, authorIndex, timeIndex, now, lastCall,
          stream, git, promise, timeoutId, executed, gitResult>>

parserVars == <<source, diffText, parsed, extParsed, changes, lineNumbers, ppc>>
renderVars == <<engine, meta, repo, options, mode, output, calls>>
contextVars == <<analyses, fileIndex, authorIndex, timeIndex, now, lastCall>>
streamVars == <<stream, git, promise, timeoutId>>
commandVars == <<executed, gitResult>>

-----------------------------------------------------------------------------
(* JavaScript strings *)

NL == "\n"

Digits == <<"0", "1", "2", "3", "4", "5", "6", "7", "8", "9">>

IsDigit(c) == \E i \in 1..10 : Digits[i] = c

DigitVal(c) == (CHOOSE i \in 1..10 : Digits[i] = c) - 1

\* String(n) for a non-negative integer
RECURSIVE numToString(_)
numToString(n) ==
    IF n < 10 THEN <<Digits[n + 1]>>
    ELSE numToString(n \div 10) \o <<Digits[(n % 10) + 1]>>

\* parseInt of a string of decimal digits
RECURSIVE parseInt(_)
parseInt(s) ==
    IF Len(s) = 0 THEN 0
    ELSE 10 * parseInt(SubSeq(s, 1, Len(s) - 1)) + DigitVal(s[Len(s)])

\* s.startsWith(p)
startsWith(s, p) == Len(s) >= Len(p) /\ SubSeq(s, 1, Len(p)) = p

\* s.includes(p)
includes(s, p) ==
    \E i \in 1..(Len(s) + 1) :
        i + Len(p) - 1 <= Len(s) /\ SubSeq(s, i, i + Len(p) - 1) = p

\* s.substring(n) (n characters dropped)
substringFrom(s, n) == SubSeq(s, n + 1, Len(s))

\* s.substring(0, n)
substringTo(s, n) == SubSeq(s, 1, IF n < Len(s) THEN (IF n < 0 THEN 0 ELSE n) ELSE Len(s))

\* the k-th smallest element of a finite set of integers
nth(S, k) == CHOOSE x \in S : Cardinality({y \in S : y < x}) = k - 1

\* the pieces of s between the positions in cuts (each cut is one character wide)
piecesBetween(s, cuts) ==
    LET n == Cardinality(cuts)
    IN  [k \in 1..(n + 1) |->
            SubSeq(s, IF k = 1 THEN 1 ELSE nth(cuts, k - 1) + 1,
                      IF k = n + 1 THEN Len(s) ELSE nth(cuts, k) - 1)]

\* s.split(sep) for a one-character separator: always at least one piece
split(s, sep) == piecesBetween(s, {i \in 1..Len(s) : s[i] = sep})

\* parts.join(sep)
RECURSIVE join(_, _)
join(parts, sep) ==
    IF Len(parts) = 0 THEN <<>>
    ELSE IF Len(parts) = 1 THEN parts[1]
    ELSE parts[1] \o <<sep>> \o join(Tail(parts), sep)

IsWhitespace(c) == c \in {" ", "\n", "\t", "\r"}

\* s.trim() is the empty string
trimIsEmpty(s) == \A i \in 1..Len(s) : IsWhitespace(s[i])

\* Bytes of one character in UTF-8 (the model's alphabet has one two-byte letter)
UTF8Bytes(c) == IF c = "é" THEN 2 ELSE 1

\* Buffer.byteLength(s, 'utf8')
byteLength(s) ==
    Cardinality({i \in 1..Len(s) : UTF8Bytes(s[i]) = 1})
    + 2 * Cardinality({i \in 1..Len(s) : UTF8Bytes(s[i]) = 2})

RECURSIVE SumSeq(_)
SumSeq(seq) == IF Len(seq) = 0 THEN 0 ELSE seq[1] + SumSeq(Tail(seq))

RECURSIVE Flatten(_)
Flatten(seqs) == IF Len(seqs) = 0 THEN <<>> ELSE seqs[1] \o Flatten(Tail(seqs))

Range(seq) == {seq[i] : i \in 1..Len(seq)}

-----------------------------------------------------------------------------
(* src/core/diff-parser.ts *)

S_diffGit == <<"d", "i", "f", "f", " ", "-", "-", "g", "i", "t", " ">>
S_diffGitA == <<"d", "i", "f", "f", " ", "-", "-", "g", "i", "t", " ", "a", "/">>
S_spaceB == <<" ", "b", "/">>
S_newFileMode == <<"n", "e", "w", " ", "f", "i", "l", "e", " ", "m", "o", "d", "e">>
S_deletedFileMode == <<"d", "e", "l", "e", "t", "e", "d", " ", "f", "i", "l", "e", " ", "m", "o", "d", "e">>
S_renameFrom == <<"r", "e", "n", "a", "m", "e", " ", "f", "r", "o", "m", " ">>
S_renameTo == <<"r", "e", "n", "a", "m", "e", " ", "t", "o", " ">>
S_copyFrom == <<"c", "o", "p", "y", " ", "f", "r", "o", "m", " ">>
S_binaryFiles == <<"B", "i", "n", "a", "r", "y", " ", "f", "i", "l", "e", "s", " ">>
S_differ == <<" ", "d", "i", "f", "f", "e", "r">>
S_gitBinaryPatch == <<"G", "I", "T", " ", "b", "i", "n", "a", "r", "y", " ", "p", "a", "t", "c", "h">>
S_atat == <<"@", "@">>

\* the index of the first character at or after i that is not a digit
RECURSIVE digitsEnd(_, _)
digitsEnd(s, i) ==
    IF i <= Len(s) /\ IsDigit(s[i]) THEN digitsEnd(s, i + 1) ELSE i

NoMatch == [ok |-> FALSE, oldStart |-> <<>>, oldCount |-> <<>>, newStart |-> <<>>, newCount |-> <<>>]

\* line.match(/^@@ -(\d+)(?:,(\d+))? \+(\d+)(?:,(\d+))? @@/): a capture group that
\* did not take part is <<>> (undefined), one that did is <<digits>>
matchHunkHeader(line) ==
    IF ~startsWith(line, <<"@", "@", " ", "-">>) THEN NoMatch
    ELSE
      LET e1 == digitsEnd(line, 5)
          c1 == e1 <= Len(line) /\ line[e1] = "," /\ digitsEnd(line, e1 + 1) > e1 + 1
          a  == IF c1 THEN digitsEnd(line, e1 + 1) ELSE e1
          e2 == digitsEnd(line, a + 2)
          c2 == e2 <= Len(line) /\ line[e2] = "," /\ digitsEnd(line, e2 + 1) > e2 + 1
          b  == IF c2 THEN digitsEnd(line, e2 + 1) ELSE e2
      IN  IF /\ e1 > 5
             /\ a + 1 <= Len(line) /\ SubSeq(line, a, a + 1) = <<" ", "+">>
             /\ e2 > a + 2
             /\ b + 2 <= Len(line) /\ SubSeq(line, b, b + 2) = <<" ", "@", "@">>
          THEN [ok |-> TRUE,
                oldStart |-> <<SubSeq(line, 5, e1 - 1)>>,
                oldCount |-> IF c1 THEN <<SubSeq(line, e1 + 1, a - 1)>> ELSE <<>>,
                newStart |-> <<SubSeq(line, a + 2, e2 - 1)>>,
                newCount |-> IF c2 THEN <<SubSeq(line, e2 + 1, b - 1)>> ELSE <<>>]
          ELSE NoMatch

\* the destructuring default: [, oldStart, oldCount = '1', ...]; the first definition
\* is a destructuring that takes '0' for a count that is left out
orDefault_zero(capture, dflt) == IF capture = <<>> THEN <<"0">> ELSE capture[1]

orDefault(capture, dflt) == IF capture = <<>> THEN dflt ELSE capture[1]

newHunk(line, m) ==
    LET oldCountNum == parseInt(orDefault(m.oldCount, <<"1">>))
        newCountNum == parseInt(orDefault(m.newCount, <<"1">>))
    IN  [header |-> line,
         lines |-> <<>>,
         oldStart |-> parseInt(m.oldStart[1]),
         newStart |-> parseInt(m.newStart[1]),
         oldCount |-> oldCountNum,
         newCount |-> newCountNum,
         oldLines |-> oldCountNum,
         newLines |-> newCountNum]

isHunkLine(line) ==
    startsWith(line, <<" ">>) \/ startsWith(line, <<"+">>) \/ startsWith(line, <<"-">>)

\* parseHunksStep with the flush of the previous hunk at a new hunk header left out
parseHunksStep_noFlush(st, line) ==
    IF startsWith(line, <<"@", "@">>) THEN
      LET m == matchHunkHeader(line)
      IN  IF m.ok
          THEN [objs |-> Append(st.objs, newHunk(line, m)),
                hunks |-> st.hunks,
                cur |-> Len(st.objs) + 1]
          ELSE st
    ELSE IF st.cur # 0 /\ isHunkLine(line) THEN
      [st EXCEPT !.objs[st.cur].lines = Append(@, line)]
    ELSE st

\* One iteration of the loop of parseHunks. st.objs is the heap of hunk objects,
\* st.hunks the result array (references into the heap), st.cur the reference held
\* by currentHunk (0 for null).
parseHunksStep(st, line) ==
    IF startsWith(line, S_atat) THEN
      LET pushed == IF st.cur # 0 THEN Append(st.hunks, st.cur) ELSE st.hunks
          m == matchHunkHeader(line)
      IN  IF m.ok
          THEN [objs |-> Append(st.objs, newHunk(line, m)),
                hunks |-> pushed,
                cur |-> Len(st.objs) + 1]
          ELSE [st EXCEPT !.hunks = pushed]
    ELSE IF st.cur # 0 /\ isHunkLine(line) THEN
      [st EXCEPT !.objs[st.cur].lines = Append(@, line)]
    ELSE st

RECURSIVE parseHunksLoop(_, _, _)
parseHunksLoop(st, lines, i) ==
    IF i > Len(lines) THEN st
    ELSE parseHunksLoop(parseHunksStep(st, lines[i]), lines, i + 1)

\* parseHunks; the first definition is the method without the push of the last hunk
\* after the loop
parseHunks_noFinalPush(lines) ==
    LET st == parseHunksLoop([objs |-> <<>>, hunks |-> <<>>, cur |-> 0], lines, 1)
    IN  [i \in 1..Len(st.hunks) |-> st.objs[st.hunks[i]]]

parseHunks(lines) ==
    LET st == parseHunksLoop([objs |-> <<>>, hunks |-> <<>>, cur |-> 0], lines, 1)
        all == IF st.cur # 0 THEN Append(st.hunks, st.cur) ELSE st.hunks
    IN  [i \in 1..Len(all) |-> st.objs[all[i]]]

\* diffAll.split(/\n(?=diff --git )/g): cut at every newline that is followed by
\* "diff --git "; then .filter(block => block.trim())
splitBlocks(diffAll) ==
    LET cuts == {i \in 1..Len(diffAll) :
                    /\ diffAll[i] = NL
                    /\ i + Len(S_diffGit) <= Len(diffAll)
                    /\ SubSeq(diffAll, i + 1, i + Len(S_diffGit)) = S_diffGit}
        nonBlank(block) == ~trimIsEmpty(block)
    IN  SelectSeq(piecesBetween(diffAll, cuts), nonBlank)

\* lines.find(line => line.startsWith('diff --git ')): <<>> for undefined
findDiffLine(lines) ==
    IF \E i \in 1..Len(lines) : startsWith(lines[i], S_diffGit)
    THEN <<lines[CHOOSE i \in 1..Len(lines) :
                   /\ startsWith(lines[i], S_diffGit)
                   /\ \A j \in 1..(i - 1) : ~startsWith(lines[j], S_diffGit)]>>
    ELSE <<>>

\* diffLine.match(/^diff --git a\/(.+) b\/(.+)$/): both groups are greedy, so the
\* first path runs to the last " b/" that still leaves a character for the second
matchDiffLine(diffLine) ==
    LET cuts == {p \in (Len(S_diffGitA) + 2)..(Len(diffLine) - 3) :
                    SubSeq(diffLine, p, p + 2) = S_spaceB}
    IN  IF startsWith(diffLine, S_diffGitA) /\ cuts # {}
        THEN LET p == CHOOSE q \in cuts : \A r \in cuts : r <= q
             IN  [ok |-> TRUE,
                  pathA |-> SubSeq(diffLine, Len(S_diffGitA) + 1, p - 1),
                  pathB |-> SubSeq(diffLine, p + 3, Len(diffLine))]
        ELSE [ok |-> FALSE, pathA |-> <<>>, pathB |-> <<>>]

\* One iteration of the metadata loop of splitByFile
fileMetaStep(st, line) ==
    IF startsWith(line, S_newFileMode) THEN [st EXCEPT !.status = "added"]
    ELSE IF startsWith(line, S_deletedFileMode) THEN [st EXCEPT !.status = "deleted"]
    ELSE IF startsWith(line, S_renameFrom)
         THEN [st EXCEPT !.status = "renamed",
                         !.renameFrom = <<substringFrom(line, Len(S_renameFrom))>>]
    ELSE IF startsWith(line, S_renameTo)
         THEN [st EXCEPT !.renameTo = <<substringFrom(line, Len(S_renameTo))>>]
    ELSE IF startsWith(line, S_copyFrom) THEN [st EXCEPT !.status = "copied"]
    ELSE IF (includes(line, S_binaryFiles) /\ includes(line, S_differ))
            \/ includes(line, S_gitBinaryPatch)
         THEN [st EXCEPT !.isBinary = TRUE]
    ELSE st

RECURSIVE fileMetaLoop(_, _, _)
fileMetaLoop(st, lines, i) ==
    IF i > Len(lines) THEN st
    ELSE fileMetaLoop(fileMetaStep(st, lines[i]), lines, i + 1)

\* lines.findIndex(line => line.startsWith('@@')), 1-based; 0 for -1
headerEndIndex(lines) ==
    IF \E i \in 1..Len(lines) : startsWith(lines[i], S_atat)
    THEN CHOOSE i \in 1..Len(lines) :
            /\ startsWith(lines[i], S_atat)
            /\ \A j \in 1..(i - 1) : ~startsWith(lines[j], S_atat)
    ELSE 0

\* The body of the loop of splitByFile: <<>> when the block is skipped, else <<file>>.
\* An optional field (renameFrom, renameTo) is <<>> when undefined, <<string>> else.
parseBlock(block) ==
    LET lines == split(block, NL)
        diffLine == findDiffLine(lines)
    IN  IF diffLine = <<>> THEN <<>>
        ELSE LET match == matchDiffLine(diffLine[1])
             IN  IF ~match.ok THEN <<>>
                 ELSE
                   LET st == fileMetaLoop([status |-> "modified", renameFrom |-> <<>>,
                                           renameTo |-> <<>>, isBinary |-> FALSE], lines, 1)
                       h == headerEndIndex(lines)
                   IN  <<[header |-> IF h = 0 THEN block
                                     ELSE join(SubSeq(lines, 1, h - 1), NL),
                          body |-> IF h = 0 THEN <<>>
                                   ELSE join(SubSeq(lines, h, Len(lines)), NL),
                          status |-> st.status,
                          pathA |-> match.pathA,
                          pathB |-> match.pathB,
                          oldPath |-> match.pathA,
                          newPath |-> match.pathB,
                          isBinary |-> st.isBinary,
                          hunks |-> parseHunks(lines),
                          renameFrom |-> st.renameFrom,
                          renameTo |-> st.renameTo]>>

splitByFile(diffAll) ==
    LET blocks == splitBlocks(diffAll)
    IN  Flatten([i \in 1..Len(blocks) |-> parseBlock(blocks[i])])

(* The parser of the extension: splitByFile and parseHunks of src/utils/secure-git.ts *)

ext_newHunk(line, m) ==
    [header |-> line,
     lines |-> <<>>,
     oldStart |-> parseInt(m.oldStart[1]),
     oldCount |-> parseInt(orDefault(m.oldCount, <<"1">>)),
     newStart |-> parseInt(m.newStart[1]),
     newCount |-> parseInt(orDefault(m.newCount, <<"1">>))]

\* the iteration of the loop with a hunk header starting over: the hunk before it is
\* not pushed
ext_parseHunksStep_dropPrevious(st, line) ==
    IF startsWith(line, S_atat) THEN
      LET m == matchHunkHeader(line)
      IN  IF m.ok
          THEN [objs |-> Append(st.objs, ext_newHunk(line, m)),
                hunks |-> st.hunks,
                cur |-> Len(st.objs) + 1]
          ELSE st
    ELSE IF st.cur # 0 /\ isHunkLine(line) THEN
      [st EXCEPT !.objs[st.cur].lines = Append(@, line)]
    ELSE st

\* One iteration of the loop of the extension's parseHunks, on the heap of hunk objects
\* as in parseHunksStep
ext_parseHunksStep(st, line) ==
    IF startsWith(line, S_atat) THEN
      LET pushed == IF st.cur # 0 THEN Append(st.hunks, st.cur) ELSE st.hunks
          m == matchHunkHeader(line)
      IN  IF m.ok
          THEN [objs |-> Append(st.objs, ext_newHunk(line, m)),
                hunks |-> pushed,
                cur |-> Len(st.objs) + 1]
          ELSE [st EXCEPT !.hunks = pushed]
    ELSE IF st.cur # 0 /\ isHunkLine(line) THEN
      [st EXCEPT !.objs[st.cur].lines = Append(@, line)]
    ELSE st

RECURSIVE ext_parseHunksLoop(_, _, _)
ext_parseHunksLoop(st, lines, i) ==
    IF i > Len(lines) THEN st
    ELSE ext_parseHunksLoop(ext_parseHunksStep(st, lines[i]), lines, i + 1)

ext_parseHunks(lines) ==
    LET st == ext_parseHunksLoop([objs |-> <<>>, hunks |-> <<>>, cur |-> 0], lines, 1)
        all == IF st.cur # 0 THEN Append(st.hunks, st.cur) ELSE st.hunks
    IN  [i \in 1..Len(all) |-> st.objs[all[i]]]

\* the body of the loop of the extension's splitByFile: the same lookup of the
\* 'diff --git' line, the same pattern, metadata loop and header split
ext_parseBlock(block) ==
    LET lines == split(block, NL)
        diffLine == findDiffLine(lines)
    IN  IF diffLine = <<>> THEN <<>>
        ELSE LET match == matchDiffLine(diffLine[1])
             IN  IF ~match.ok THEN <<>>
                 ELSE
                   LET st == fileMetaLoop([status |-> "modified", renameFrom |-> <<>>,
                                           renameTo |-> <<>>, isBinary |-> FALSE], lines, 1)
                       hunks == ext_parseHunks(lines)
                       h == headerEndIndex(lines)
                   IN  <<[header |-> IF h = 0 THEN block
                                     ELSE join(SubSeq(lines, 1, h - 1), NL),
                          body |-> IF h = 0 THEN <<>>
                                   ELSE join(SubSeq(lines, h, Len(lines)), NL),
                          status |-> st.status,
                          pathA |-> match.pathA,
                          pathB |-> match.pathB,
                          isBinary |-> st.isBinary,
                          hunks |-> hunks,
                          renameFrom |-> st.renameFrom,
                          renameTo |-> st.renameTo]>>

ext_splitByFile(diffAll) ==
    LET blocks == splitBlocks(diffAll)
    IN  Flatten([i \in 1..Len(blocks) |-> ext_parseBlock(blocks[i])])

\* the number of elements of lines that start with the character c
countStartingWith(lines, c) ==
    Cardinality({i \in 1..Len(lines) : startsWith(lines[i], <<c>>)})

countChanges(files) ==
    LET hunkAdds(h) == countStartingWith(h.lines, "+")
        hunkDels(h) == countStartingWith(h.lines, "-")
        fileAdds(f) == SumSeq([k \in 1..Len(f.hunks) |-> hunkAdds(f.hunks[k])])
        fileDels(f) == SumSeq([k \in 1..Len(f.hunks) |-> hunkDels(f.hunks[k])])
    IN  [additions |-> SumSeq([i \in 1..Len(files) |-> fileAdds(files[i])]),
         deletions |-> SumSeq([i \in 1..Len(files) |-> fileDels(files[i])])]

\* One iteration of the inner loop of getChangedLineNumbers; the first definition is a
\* walk in which a context line advances the new counter only.
lineNumbersStep_contextNewOnly(st, line) ==
    IF startsWith(line, <<"-">>)
    THEN [st EXCEPT !.oldLines = Append(@, st.oldLineNum), !.oldLineNum = @ + 1]
    ELSE IF startsWith(line, <<"+">>)
    THEN [st EXCEPT !.newLines = Append(@, st.newLineNum), !.newLineNum = @ + 1]
    ELSE IF startsWith(line, <<" ">>)
    THEN [st EXCEPT !.newLineNum = @ + 1]
    ELSE st

lineNumbersStep(st, line) ==
    IF startsWith(line, <<"-">>)
    THEN [st EXCEPT !.oldLines = Append(@, st.oldLineNum), !.oldLineNum = @ + 1]
    ELSE IF startsWith(line, <<"+">>)
    THEN [st EXCEPT !.newLines = Append(@, st.newLineNum), !.newLineNum = @ + 1]
    ELSE IF startsWith(line, <<" ">>)
    THEN [st EXCEPT !.oldLineNum = @ + 1, !.newLineNum = @ + 1]
    ELSE st

RECURSIVE lineNumbersLines(_, _, _)
lineNumbersLines(st, lines, i) ==
    IF i > Len(lines) THEN st
    ELSE lineNumbersLines(lineNumbersStep(st, lines[i]), lines, i + 1)

\* The outer loop of getChangedLineNumbers from hunk h on: the counters are set to the
\* hunk's oldStart and newStart, the arrays are kept
RECURSIVE lineNumbersHunks(_, _, _)
lineNumbersHunks(st, hunks, h) ==
    IF h > Len(hunks) THEN st
    ELSE lineNumbersHunks(
            lineNumbersLines([st EXCEPT !.oldLineNum = hunks[h].oldStart,
                                        !.newLineNum = hunks[h].newStart],
                             hunks[h].lines, 1),
            hunks, h + 1)

getChangedLineNumbers(hunks) ==
    LET st == lineNumbersHunks([oldLines |-> <<>>, newLines |-> <<>>,
                                oldLineNum |-> 0, newLineNum |-> 0], hunks, 1)
    IN  [old |-> st.oldLines, new |-> st.newLines]

-----------------------------------------------------------------------------
(* Helpers shared by the two renderers: src/utils/secure-git.ts (the extension's
   renderMarkdown, lines 1090-1623) and the core MarkdownRenderer *)

UpperCase == <<"A", "B", "C", "D", "E", "F", "G", "H", "I", "J", "K", "L", "M", "N", "O", "P", "Q", "R", "S", "T", "U", "V", "W", "X", "Y", "Z">>
LowerCase == <<"a", "b", "c", "d", "e", "f", "g", "h", "i", "j", "k", "l", "m", "n", "o", "p", "q", "r", "s", "t", "u", "v", "w", "x", "y", "z">>

\* s.toLowerCase()
toLowerCase(s) ==
    [i \in 1..Len(s) |->
        IF \E k \in 1..Len(UpperCase) : UpperCase[k] = s[i]
        THEN LowerCase[CHOOSE k \in 1..Len(UpperCase) : UpperCase[k] = s[i]]
        ELSE s[i]]

\* s.endsWith(p), as the patterns /...rc$/ and /...config$/ use it
endsWith(s, p) == Len(s) >= Len(p) /\ SubSeq(s, Len(s) - Len(p) + 1, Len(s)) = p

\* path.split(sep).pop()
lastPiece(path, sep) == LET parts == split(path, sep) IN parts[Len(parts)]

\* langMap of getLanguageFromExtension: <<extension, language>>
langMap == {
    <<<<"t", "s">>, <<"t", "y", "p", "e", "s", "c", "r", "i", "p", "t">>>>,
    <<<<"j", "s">>, <<"j", "a", "v", "a", "s", "c", "r", "i", "p", "t">>>>,
    <<<<"t", "s", "x">>, <<"t", "y", "p", "e", "s", "c", "r", "i", "p", "t">>>>,
    <<<<"j", "s", "x">>, <<"j", "a", "v", "a", "s", "c", "r", "i", "p", "t">>>>,
    <<<<"p", "y">>, <<"p", "y", "t", "h", "o", "n">>>>,
    <<<<"r", "b">>, <<"r", "u", "b", "y">>>>, <<<<"p", "h", "p">>, <<"p", "h", "p">>>>,
    <<<<"j", "a", "v", "a">>, <<"j", "a", "v", "a">>>>,
    <<<<"c", "p", "p">>, <<"c", "p", "p">>>>, <<<<"c">>, <<"c">>>>,
    <<<<"c", "s">>, <<"c", "s", "h", "a", "r", "p">>>>, <<<<"g", "o">>, <<"g", "o">>>>,
    <<<<"r", "s">>, <<"r", "u", "s", "t">>>>,
    <<<<"k", "t">>, <<"k", "o", "t", "l", "i", "n">>>>,
    <<<<"s", "w", "i", "f", "t">>, <<"s", "w", "i", "f", "t">>>>,
    <<<<"m", "d">>, <<"m", "a", "r", "k", "d", "o", "w", "n">>>>,
    <<<<"h", "t", "m", "l">>, <<"h", "t", "m", "l">>>>,
    <<<<"c", "s", "s">>, <<"c", "s", "s">>>>,
    <<<<"s", "c", "s", "s">>, <<"s", "c", "s", "s">>>>,
    <<<<"j", "s", "o", "n">>, <<"j", "s", "o", "n">>>>,
    <<<<"x", "m", "l">>, <<"x", "m", "l">>>>, <<<<"y", "m", "l">>, <<"y", "a", "m", "l">>>>,
    <<<<"y", "a", "m", "l">>, <<"y", "a", "m", "l">>>>,
    <<<<"s", "h">>, <<"b", "a", "s", "h">>>>,
    <<<<"b", "a", "s", "h">>, <<"b", "a", "s", "h">>>>,
    <<<<"s", "q", "l">>, <<"s", "q", "l">>>>
}

\* getLanguageFromExtension(ext): langMap[ext] || ext, '' for a missing extension
getLanguageFromExtension(ext) ==
    IF ext = <<>> THEN <<>>
    ELSE IF \E e \in langMap : e[1] = ext
         THEN (CHOOSE e \in langMap : e[1] = ext)[2]
         ELSE ext

textExtensions == {
    <<"j", "s">>, <<"t", "s">>, <<"j", "s", "x">>, <<"t", "s", "x">>, <<"j", "s", "o", "n">>,
    <<"m", "d">>, <<"t", "x", "t">>, <<"h", "t", "m", "l">>, <<"c", "s", "s">>,
    <<"s", "c", "s", "s">>, <<"s", "a", "s", "s">>, <<"p", "y">>, <<"r", "b">>,
    <<"p", "h", "p">>, <<"j", "a", "v", "a">>, <<"c">>, <<"c", "p", "p">>, <<"h">>,
    <<"h", "p", "p">>, <<"c", "s">>, <<"g", "o">>, <<"r", "s">>, <<"k", "t">>,
    <<"s", "w", "i", "f", "t">>, <<"s", "h">>, <<"b", "a", "s", "h">>, <<"z", "s", "h">>,
    <<"f", "i", "s", "h">>, <<"p", "s", "1">>, <<"x", "m", "l">>, <<"y", "m", "l">>,
    <<"y", "a", "m", "l">>, <<"t", "o", "m", "l">>, <<"i", "n", "i">>, <<"c", "o", "n", "f">>,
    <<"c", "o", "n", "f", "i", "g">>, <<"e", "n", "v">>,
    <<"g", "i", "t", "i", "g", "n", "o", "r", "e">>,
    <<"d", "o", "c", "k", "e", "r", "i", "g", "n", "o", "r", "e">>,
    <<"e", "d", "i", "t", "o", "r", "c", "o", "n", "f", "i", "g">>, <<"v", "u", "e">>,
    <<"s", "v", "e", "l", "t", "e">>, <<"a", "s", "t", "r", "o">>, <<"s", "q", "l">>,
    <<"g", "r", "a", "p", "h", "q", "l">>, <<"g", "q", "l">>, <<"p", "r", "i", "s", "m", "a">>,
    <<"p", "r", "o", "t", "o">>, <<"d", "o", "c", "k", "e", "r", "f", "i", "l", "e">>,
    <<"m", "a", "k", "e", "f", "i", "l", "e">>, <<"r", "a", "k", "e", "f", "i", "l", "e">>,
    <<"g", "e", "m", "f", "i", "l", "e">>, <<"p", "o", "d", "f", "i", "l", "e">>,
    <<"g", "r", "a", "d", "l", "e">>
}

\* the name patterns of isLikelyTextFile that are prefixes: /^dockerfile/i, ...
textFilePrefixes == {
    <<"d", "o", "c", "k", "e", "r", "f", "i", "l", "e">>,
    <<"m", "a", "k", "e", "f", "i", "l", "e">>, <<"r", "a", "k", "e", "f", "i", "l", "e">>,
    <<"g", "e", "m", "f", "i", "l", "e">>, <<"p", "o", "d", "f", "i", "l", "e">>,
    <<"r", "e", "a", "d", "m", "e">>, <<"l", "i", "c", "e", "n", "s", "e">>,
    <<"c", "h", "a", "n", "g", "e", "l", "o", "g">>,
    <<"c", "o", "n", "t", "r", "i", "b", "u", "t", "i", "n", "g">>,
    <<"a", "u", "t", "h", "o", "r", "s">>, <<"t", "o", "d", "o">>
}

isLikelyTextFile(path) ==
    LET ext == toLowerCase(lastPiece(path, "."))
        fileName == toLowerCase(lastPiece(path, "/"))
    IN  \/ (ext # <<>> /\ ext \in textExtensions)
        \/ /\ fileName # <<>>
           /\ \/ \E p \in textFilePrefixes : startsWith(fileName, p)
              \/ startsWith(fileName, <<".">>) /\ Len(fileName) >= 3 /\ endsWith(fileName, <<"r", "c">>)
              \/ startsWith(fileName, <<".">>) /\ Len(fileName) >= 7
                 /\ endsWith(fileName, <<"c", "o", "n", "f", "i", "g">>)

\* Two characters a TLA+ string cannot hold, as atoms of their own
Backquote == "BACKQUOTE"
NullByte == "NUL"

\* the characters of the class [;&|'$(){}[\]<>] of hasUnsafeCharacters, ' standing
\* for the backquote
unsafeCharacters == {";", "&", "|", Backquote, "$", "(", ")", "{", "}", "[", "]", "<", ">"}

S_formatEq == <<"-", "-", "f", "o", "r", "m", "a", "t", "=">>
S_prettyEq == <<"-", "-", "p", "r", "e", "t", "t", "y", "=">>

hasUnsafeCharacters(input) ==
    IF startsWith(input, S_formatEq) \/ startsWith(input, S_prettyEq)
    THEN \E i \in 1..Len(input) : input[i] \in (unsafeCharacters \ {"|"})
    ELSE \E i \in 1..Len(input) : input[i] \in unsafeCharacters

\* arg.trim()
RECURSIVE trimLeft(_)
trimLeft(s) == IF Len(s) > 0 /\ IsWhitespace(s[1]) THEN trimLeft(Tail(s)) ELSE s

RECURSIVE trimRight(_)
trimRight(s) ==
    IF Len(s) > 0 /\ IsWhitespace(s[Len(s)]) THEN trimRight(SubSeq(s, 1, Len(s) - 1)) ELSE s

trim(s) == trimRight(trimLeft(s))

sanitizeArguments(args) == [i \in 1..Len(args) |-> trim(args[i])]

\* validateSecurity looking at the first argument only
validateSecurity_firstArgument(args) ==
    \A i \in 1..Len(args) :
        LET arg == args[i]
        IN  i = 1
            => /\ arg # <<>>
               /\ ~hasUnsafeCharacters(arg)
               /\ ~includes(arg, <<".", ".", "/">>)
               /\ ~includes(arg, <<".", ".", "\\">>)
               /\ ~includes(arg, <<NullByte>>)

\* validateSecurity(args) returns (TRUE) or throws (FALSE)
validateSecurity(args) ==
    \A i \in 1..Len(args) :
        LET arg == args[i]
        IN  /\ arg # <<>>
            /\ ~hasUnsafeCharacters(arg)
            /\ ~includes(arg, <<".", ".", "/">>)
            /\ ~includes(arg, <<".", ".", "\\">>)
            /\ ~includes(arg, <<NullByte>>)

\* A blob the repository can show is <<content>>; NoBlob is a path that git show
\* fails on (not in that revision, not in the index).
NoBlob == <<>>

Threw == [ok |-> FALSE, stdout |-> <<>>]

\* child_process exec / execFile of "git show <ref>" with a maxBuffer: resolves with
\* the blob, rejects when git fails or the output is longer than maxBuffer bytes
gitShow(blob, maxBuffer) ==
    IF blob = NoBlob \/ byteLength(blob[1]) > maxBuffer THEN Threw
    ELSE [ok |-> TRUE, stdout |-> blob[1]]

\* SecureGitCommands.safeGitCommand(['show', ref], cwd, maxBuffer), git being installed
\* and cwd a repository: throws on an argument that fails validation, else runs git
safeGitCommand(args, blob, maxBuffer) ==
    LET sanitizedArgs == sanitizeArguments(args)
    IN  IF ~validateSecurity(sanitizedArgs) THEN Threw
        ELSE gitShow(blob, maxBuffer)

-----------------------------------------------------------------------------
(* Reconstruction in the extension: getFullFileContent and
   getFullFileContentForStaged of src/utils/secure-git.ts *)

\* A line pushed to the output: s is the string pushed; kind and n say where it came
\* from (n: the number of the after-file or before-file line, or of the hunk).
Entry(kind, n, s) == [kind |-> kind, n |-> n, s |-> s, file |-> 0]

entriesOf(kind, strings) == [k \in 1..Len(strings) |-> Entry(kind, k, strings[k])]

\* maxBuffer of the git show calls of getFullFileContent: 50 * 1024 * 1024
ShMaxBuffer == 52428800

\* `... (truncated at line ${lineNum}, ${omitted} lines omitted)`
truncationMarker(lineNum, omitted) ==
    <<".", ".", ".", " ", "(", "t", "r", "u", "n", "c", "a", "t", "e", "d", " ", "a", "t", " ", "l", "i", "n", "e", " ">> \o numToString(lineNum)
    \o <<",", " ">> \o numToString(omitted) \o <<" ", "l", "i", "n", "e", "s", " ", "o", "m", "i", "t", "t", "e", "d", ")">>

\* the hunk headers pushed first, and the empty line after them
hunkHeaderEntries(hunks) ==
    [k \in 1..Len(hunks) |-> Entry("header", k, hunks[k].header)]
    \o (IF Len(hunks) > 0 THEN <<Entry("blank", 0, <<>>)>> ELSE <<>>)

\* The loops over beforeLines (prefix '-') and afterLines (prefix '+') of a deleted and
\* an added file: i is the 1-based line, totalSize the bytes counted before it.
RECURSIVE emitPrefixed(_, _, _, _, _, _)
emitPrefixed(srcLines, prefix, kind, i, totalSize, maxBytes) ==
    IF i > Len(srcLines) THEN <<>>
    ELSE LET outputLine == <<prefix>> \o srcLines[i]
             size == totalSize + byteLength(outputLine \o <<NL>>)
         IN  IF size > maxBytes
             THEN <<Entry("marker", i, truncationMarker(i, Len(srcLines) - (i - 1)))>>
             ELSE <<Entry(kind, i, outputLine)>>
                  \o emitPrefixed(srcLines, prefix, kind, i + 1, size, maxBytes)

\* new Map(): a function; map.set(k, v); map.has(k)
EmptyMap == [k \in {} |-> <<>>]
mapSet(map, k, v) == [x \in (DOMAIN map) \cup {k} |-> IF x = k THEN v ELSE map[x]]
mapHas(map, k) == k \in DOMAIN map

\* One line of a hunk in the loop that builds addedLines and removedLines. pending is
\* removedInHunk; a line that starts with neither '+' nor '-' is a context line.
lineMapsStep(st, line) ==
    IF startsWith(line, <<"+">>)
    THEN [st EXCEPT !.added = @ \cup {st.newLn}, !.newLn = @ + 1]
    ELSE IF startsWith(line, <<"-">>)
    THEN [st EXCEPT !.pending = Append(@, line), !.oldLn = @ + 1]
    ELSE [st EXCEPT !.removed = IF Len(st.pending) > 0
                                THEN mapSet(@, st.newLn, st.pending) ELSE @,
                    !.pending = <<>>,
                    !.newLn = @ + 1,
                    !.oldLn = @ + 1]

RECURSIVE lineMapsLines(_, _, _)
lineMapsLines(st, lines, i) ==
    IF i > Len(lines) THEN st
    ELSE lineMapsLines(lineMapsStep(st, lines[i]), lines, i + 1)

\* One hunk: the cursors start at the hunk's start lines; removed lines still pending
\* at the end of the hunk are set at the cursor
lineMapsHunk(maps, hunk) ==
    LET st == lineMapsLines([added |-> maps.added, removed |-> maps.removed,
                             newLn |-> hunk.newStart, oldLn |-> hunk.oldStart,
                             pending |-> <<>>], hunk.lines, 1)
    IN  [added |-> st.added,
         removed |-> IF Len(st.pending) > 0
                     THEN mapSet(st.removed, st.newLn, st.pending) ELSE st.removed]

RECURSIVE lineMapsHunks(_, _, _)
lineMapsHunks(maps, hunks, k) ==
    IF k > Len(hunks) THEN maps
    ELSE lineMapsHunks(lineMapsHunk(maps, hunks[k]), hunks, k + 1)

\* addedLines (a Set of after-line numbers) and removedLines (a Map from after-line
\* number to the removed lines set before it) of a hunk sequence
buildLineMaps(hunks) == lineMapsHunks([added |-> {}, removed |-> EmptyMap], hunks, 1)

removedAt(maps, lineNum) ==
    IF mapHas(maps.removed, lineNum) THEN maps.removed[lineNum] ELSE <<>>

removedEntries(maps, lineNum) ==
    LET removed == removedAt(maps, lineNum)
    IN  [k \in 1..Len(removed) |-> Entry("removed", lineNum, removed[k])]

removedBytes(maps, lineNum) ==
    LET removed == removedAt(maps, lineNum)
    IN  SumSeq([k \in 1..Len(removed) |-> byteLength(removed[k] \o <<NL>>)])

\* The loop over afterLines of a modified, renamed or copied file: the removed lines
\* set before line i are pushed and counted, then line i is counted, and pushed unless
\* the count is over maxBytes, in which case the marker is pushed and the loop ends.
RECURSIVE emitAfterLines(_, _, _, _, _)
emitAfterLines(afterLines, maps, i, totalSize, maxBytes) ==
    IF i > Len(afterLines) THEN <<>>
    ELSE LET prefix == IF i \in maps.added THEN "+" ELSE " "
             outputLine == <<prefix>> \o afterLines[i]
             size == totalSize + removedBytes(maps, i) + byteLength(outputLine \o <<NL>>)
         IN  removedEntries(maps, i)
             \o (IF size > maxBytes
                 THEN <<Entry("marker", i, truncationMarker(i, Len(afterLines) - (i - 1)))>>
                 ELSE <<Entry("after", i, outputLine)>>
                      \o emitAfterLines(afterLines, maps, i + 1, size, maxBytes))

\* the loop over afterLines, then the removed lines set at afterLines.length + 1
reconstructModified(afterLines, hunks, maxBytes) ==
    LET maps == buildLineMaps(hunks)
    IN  emitAfterLines(afterLines, maps, 1, 0, maxBytes)
        \o removedEntries(maps, Len(afterLines) + 1)

\* content of a git show that is allowed to fail: '' in the catch
stdoutOrEmpty(r) == IF r.ok THEN r.stdout ELSE <<>>

\* getFullFileContent(cwd, commitHash, filePath, hunks, maxBytes, status) of the
\* extension, on a repository rp = [after, before]. Every git show has its own catch, so
\* the function never throws: ok is TRUE and result the lines of the string returned.
\* For a modified, renamed or copied file beforeContent is fetched and never read.
ext_getFullFileContent(rp, hunks, maxBytes, status) ==
    LET afterContent == IF status = "deleted" THEN <<>>
                        ELSE stdoutOrEmpty(gitShow(rp.after, ShMaxBuffer))
        beforeContent == IF status = "added" THEN <<>>
                         ELSE stdoutOrEmpty(gitShow(rp.before, ShMaxBuffer))
        body == IF status = "deleted"
                THEN emitPrefixed(split(beforeContent, NL), "-", "before", 1, 0, maxBytes)
                ELSE IF status = "added"
                THEN emitPrefixed(split(afterContent, NL), "+", "after", 1, 0, maxBytes)
                ELSE reconstructModified(split(afterContent, NL), hunks, maxBytes)
    IN  [ok |-> TRUE, result |-> hunkHeaderEntries(hunks) \o body]

\* getFullFileContentForStaged(cwd, filePath, hunks, status, renameFrom, maxBytes) of
\* the extension: the staged blob is shown with maxBuffer maxBytes and '' in the catch;
\* no branch on status but for the paths; beforeContent is fetched and never read.
\* The maps are built by the same statements as in getFullFileContent.
ext_getFullFileContentForStaged(rp, hunks, status, maxBytes) ==
    LET afterContent == IF status = "deleted" THEN <<>>
                        ELSE stdoutOrEmpty(gitShow(rp.after, maxBytes))
    IN  [ok |-> TRUE,
         result |-> hunkHeaderEntries(hunks)
                    \o reconstructModified(split(afterContent, NL), hunks, maxBytes)]

-----------------------------------------------------------------------------
(* Reconstruction in the core: MarkdownRenderer.getFullFileContent and
   MarkdownRenderer.getFullFileContentForStaged *)

S_show == <<"s", "h", "o", "w">>
S_HEAD == <<"H", "E", "A", "D">>

\* lines.map(line => prefix + line)
mapPrefixed_bare(srcLines, prefix, kind) ==
    [i \in 1..Len(srcLines) |-> Entry(kind, i, srcLines[i])]

mapPrefixed(srcLines, prefix, kind) ==
    [i \in 1..Len(srcLines) |-> Entry(kind, i, <<prefix>> \o srcLines[i])]

\* changedLines: every line from newStart, newLines of them, of every hunk
changedLineSet_fromOne(hunks) ==
    UNION {{hunks[k].newStart + i : i \in 1..hunks[k].newLines} : k \in 1..Len(hunks)}

changedLineSet(hunks) ==
    UNION {{hunks[k].newStart + i : i \in 0..(hunks[k].newLines - 1)} : k \in 1..Len(hunks)}

\* "Mark changed lines": '!' on a line of changedLines, ' ' on any other
markChanged(srcLines, hunks) ==
    LET changedLines == changedLineSet(hunks)
    IN  [i \in 1..Len(srcLines) |->
            Entry("after", i, <<IF i \in changedLines THEN "!" ELSE " ">> \o srcLines[i])]

\* The three branches shared by the two functions: r is the result of the
\* safeGitCommand of the branch taken; a throw of safeGitCommand leaves the function
contentFromShow(r, hunks, status, notAvailable) ==
    IF ~r.ok THEN [ok |-> FALSE, result |-> <<>>]
    ELSE IF r.stdout = <<>>
    THEN [ok |-> TRUE, result |-> <<Entry("placeholder", 0, notAvailable)>>]
    ELSE [ok |-> TRUE,
          result |-> IF status = "added" THEN mapPrefixed(split(r.stdout, NL), "+", "after")
                     ELSE IF status = "deleted"
                     THEN mapPrefixed(split(r.stdout, NL), "-", "before")
                     ELSE markChanged(split(r.stdout, NL), hunks)]

\* MarkdownRenderer.getFullFileContent(cwd, commitHash, filePath, hunks, maxFileBytes,
\* status): git show <hash>:<path> (<hash>^:<path> for a deleted file) through
\* safeGitCommand with maxBuffer maxFileBytes
MarkdownRenderer_getFullFileContent(rp, commitHash, filePath, hunks, maxFileBytes, status) ==
    IF status = "added"
    THEN contentFromShow(
            safeGitCommand(<<S_show, commitHash \o <<":">> \o filePath>>, rp.after, maxFileBytes),
            hunks, status, <<"/", "/", " ", "N", "e", "w", " ", "f", "i", "l", "e", " ", "-", " ", "c", "o", "n", "t", "e", "n", "t", " ", "n", "o", "t", " ", "a", "v", "a", "i", "l", "a", "b", "l", "e">>)
    ELSE IF status = "deleted"
    THEN contentFromShow(
            safeGitCommand(<<S_show, commitHash \o <<"^", ":">> \o filePath>>, rp.before,
                           maxFileBytes),
            hunks, status, <<"/", "/", " ", "D", "e", "l", "e", "t", "e", "d", " ", "f", "i", "l", "e", " ", "-", " ", "c", "o", "n", "t", "e", "n", "t", " ", "n", "o", "t", " ", "a", "v", "a", "i", "l", "a", "b", "l", "e">>)
    ELSE contentFromShow(
            safeGitCommand(<<S_show, commitHash \o <<":">> \o filePath>>, rp.after, maxFileBytes),
            hunks, status, <<"/", "/", " ", "F", "i", "l", "e", " ", "c", "o", "n", "t", "e", "n", "t", " ", "n", "o", "t", " ", "a", "v", "a", "i", "l", "a", "b", "l", "e">>)

\* MarkdownRenderer.getFullFileContentForStaged(cwd, filePath, hunks, status, renameFrom,
\* maxFileBytes): git show :<path> (HEAD:<path> for a deleted file)
MarkdownRenderer_getFullFileContentForStaged(rp, filePath, hunks, status, maxFileBytes) ==
    IF status = "added"
    THEN contentFromShow(
            safeGitCommand(<<S_show, <<":">> \o filePath>>, rp.after, maxFileBytes),
            hunks, status, <<"/", "/", " ", "N", "e", "w", " ", "f", "i", "l", "e", " ", "-", " ", "s", "t", "a", "g", "e", "d", " ", "c", "o", "n", "t", "e", "n", "t">>)
    ELSE IF status = "deleted"
    THEN contentFromShow(
            safeGitCommand(<<S_show, S_HEAD \o <<":">> \o filePath>>, rp.before, maxFileBytes),
            hunks, status, <<"/", "/", " ", "D", "e", "l", "e", "t", "e", "d", " ", "f", "i", "l", "e", " ", "-", " ", "s", "t", "a", "g", "e", "d", " ", "f", "o", "r", " ", "r", "e", "m", "o", "v", "a", "l">>)
    ELSE contentFromShow(
            safeGitCommand(<<S_show, <<":">> \o filePath>>, rp.after, maxFileBytes),
            hunks, status, <<"/", "/", " ", "S", "t", "a", "g", "e", "d", " ", "f", "i", "l", "e", " ", "c", "o", "n", "t", "e", "n", "t", " ", "n", "o", "t", " ", "a", "v", "a", "i", "l", "a", "b", "l", "e">>)

-----------------------------------------------------------------------------
(* The mode renderer: MarkdownRenderer.renderFile and the loop body of the
   extension's renderMarkdown *)

statusText(status) ==
    CASE status = "added" -> <<"a", "d", "d", "e", "d">>
      [] status = "deleted" -> <<"d", "e", "l", "e", "t", "e", "d">>
      [] status = "modified" -> <<"m", "o", "d", "i", "f", "i", "e", "d">>
      [] status = "renamed" -> <<"r", "e", "n", "a", "m", "e", "d">>
      [] status = "copied" -> <<"c", "o", "p", "i", "e", "d">>

S_fenceOpen == <<Backquote, Backquote, Backquote, "d", "i", "f", "f">>
S_fenceClose == <<Backquote, Backquote, Backquote>>
S_binaryFileOmitted == <<"B", "i", "n", "a", "r", "y", " ", "f", "i", "l", "e", " ", "-", " ", "c", "o", "n", "t", "e", "n", "t", " ", "o", "m", "i", "t", "t", "e", "d">>
S_noChangesInHunks == <<"N", "o", " ", "c", "h", "a", "n", "g", "e", "s", " ", "i", "n", " ", "h", "u", "n", "k", "s", ".">>

\* file.newPath || file.oldPath (file.pathB || file.pathA in the extension)
filePathOf(f) == IF f.newPath # <<>> THEN f.newPath ELSE f.oldPath

\* '', '### path', '- **Status**: status', the rename line, the language line
fileHeaderEntries(f) ==
    LET filePath == filePathOf(f)
        language == getLanguageFromExtension(toLowerCase(lastPiece(filePath, ".")))
    IN  <<Entry("blank", 0, <<>>),
          Entry("section", 0, <<"#", "#", "#", " ">> \o filePath),
          Entry("status", 0, <<"-", " ", "*", "*", "S", "t", "a", "t", "u", "s", "*", "*", ":", " ">> \o statusText(f.status))>>
        \o (IF f.renameFrom # <<>> /\ f.renameFrom[1] # <<>>
               /\ f.renameTo # <<>> /\ f.renameTo[1] # <<>>
            THEN <<Entry("rename", 0, <<"-", " ", "*", "*", "R", "e", "n", "a", "m", "e", "*", "*", ":", " ">> \o f.renameFrom[1]
                                      \o <<" ", "→", " ">> \o f.renameTo[1])>>
            ELSE <<>>)
        \o (IF language # <<>> THEN <<Entry("language", 0, <<"-", " ", "*", "*", "L", "a", "n", "g", "u", "a", "g", "e", "*", "*", ":", " ">> \o language)>> ELSE <<>>)

\* '```diff', the string pushed between the fences, '```'
fenced(entries) ==
    <<Entry("fence", 0, S_fenceOpen)>>
    \o (IF entries = <<>> THEN <<Entry("blank", 0, <<>>)>> ELSE entries)
    \o <<Entry("fence", 0, S_fenceClose)>>

\* file.body.split('\n').filter(line => line.startsWith(c)).length
bodyCount(f, c) == countStartingWith(split(f.body, NL), c)

\* the lines of a hunk that start with '+' or '-', in order
changedLinesOf_withContext(hunk) == hunk.lines

changedLinesOf(hunk) ==
    LET isChange(line) == startsWith(line, <<"+">>) \/ startsWith(line, <<"-">>)
    IN  SelectSeq(hunk.lines, isChange)

changesLine(added, removed) ==
    Entry("totals", 0, <<"*", "C", "h", "a", "n", "g", "e", "s", ":", " ", "+">> \o numToString(added)
                       \o <<" ", "l", "i", "n", "e", "s", ",", " ", "-">> \o numToString(removed) \o <<" ", "l", "i", "n", "e", "s", "*">>)

\* MarkdownRenderer.renderHunksMode(file, lines); the hunks branch of the extension's
\* renderMarkdown (secure-git.ts 1190-1234) is the same statements with the English
\* messages
renderHunksMode(f) ==
    IF f.status = "added" THEN
      LET totalLines == bodyCount(f, "+")
      IN  <<Entry("fence", 0, S_fenceOpen),
            Entry("header", 0, <<"@", "@", " ", "-", "0", ",", "0", " ", "+", "1", ",">> \o numToString(totalLines) \o <<" ", "@", "@">>),
            Entry("summary", 0, <<".", ".", ".", " ", "(", "n", "e", "w", " ", "f", "i", "l", "e", " ", "w", "i", "t", "h", " ">> \o numToString(totalLines) \o <<" ", "l", "i", "n", "e", "s", ")">>),
            Entry("fence", 0, S_fenceClose),
            changesLine(totalLines, 0)>>
    ELSE IF f.status = "deleted" THEN
      LET totalLines == bodyCount(f, "-")
      IN  <<Entry("fence", 0, S_fenceOpen),
            Entry("header", 0, <<"@", "@", " ", "-", "1", ",">> \o numToString(totalLines) \o <<" ", "+", "0", ",", "0", " ", "@", "@">>),
            Entry("summary", 0, <<".", ".", ".", " ", "(", "f", "i", "l", "e", " ", "d", "e", "l", "e", "t", "e", "d", " ", "w", "i", "t", "h", " ">> \o numToString(totalLines) \o <<" ", "l", "i", "n", "e", "s", ")">>),
            Entry("fence", 0, S_fenceClose),
            changesLine(0, totalLines)>>
    ELSE
      LET perHunk == [k \in 1..Len(f.hunks) |->
                        <<Entry("header", k, f.hunks[k].header)>>
                        \o [j \in 1..Len(changedLinesOf(f.hunks[k])) |->
                              Entry("change", k, changedLinesOf(f.hunks[k])[j])]]
          addedLines == SumSeq([k \in 1..Len(f.hunks) |->
                                  countStartingWith(f.hunks[k].lines, "+")])
          removedLines == SumSeq([k \in 1..Len(f.hunks) |->
                                    countStartingWith(f.hunks[k].lines, "-")])
      IN  <<Entry("fence", 0, S_fenceOpen)>>
          \o Flatten(perHunk)
          \o <<Entry("fence", 0, S_fenceClose)>>
          \o (IF addedLines > 0 \/ removedLines > 0
              THEN <<changesLine(addedLines, removedLines)>> ELSE <<>>)

\* The catch of MarkdownRenderer.renderFullMode: file.body, cut at maxFileBytes
\* characters with '\n... (truncated)' pushed after it
fallbackBody(f, maxFileBytes) ==
    IF Len(f.body) > maxFileBytes
    THEN entriesOf("body", split(substringTo(f.body, maxFileBytes), NL))
         \o <<Entry("blank", 0, <<>>), Entry("marker", 0, <<".", ".", ".", " ", "(", "t", "r", "u", "n", "c", "a", "t", "e", "d", ")">>)>>
    ELSE entriesOf("body", split(f.body, NL))

\* MarkdownRenderer.renderFullMode(file, lines, meta, options); the first definition
\* is the method without its catch block, where a failed reconstruction pushes no block
renderFullMode_noCatch(f, m, opts, rp) ==
    LET fullContent ==
            IF m.hash # <<>>
            THEN MarkdownRenderer_getFullFileContent(rp, m.hash, filePathOf(f), f.hunks,
                                                     opts.maxFileBytes, f.status)
            ELSE MarkdownRenderer_getFullFileContentForStaged(rp, filePathOf(f), f.hunks,
                                                              f.status, opts.maxFileBytes)
    IN  IF fullContent.ok THEN fenced(fullContent.result) ELSE <<>>

renderFullMode(f, m, opts, rp) ==
    LET fullContent ==
            IF m.hash # <<>>
            THEN MarkdownRenderer_getFullFileContent(rp, m.hash, filePathOf(f), f.hunks,
                                                     opts.maxFileBytes, f.status)
            ELSE MarkdownRenderer_getFullFileContentForStaged(rp, filePathOf(f), f.hunks,
                                                              f.status, opts.maxFileBytes)
    IN  IF fullContent.ok THEN fenced(fullContent.result)
        ELSE fenced(fallbackBody(f, opts.maxFileBytes))

\* the guard of the binary notice: file.isBinary && options.detectBinary &&
\* !isLikelyTextFile(path), the same in MarkdownRenderer.renderFile and in renderMarkdown
isBinaryOmitted_whenNotDetecting(f, opts) ==
    f.isBinary /\ ~opts.detectBinary /\ ~isLikelyTextFile(filePathOf(f))

isBinaryOmitted(f, opts) ==
    f.isBinary /\ opts.detectBinary /\ ~isLikelyTextFile(filePathOf(f))

\* MarkdownRenderer.renderFile(file, mode, lines, meta, options): the lines pushed
renderFile(f, md, m, opts, rp) ==
    fileHeaderEntries(f)
    \o (IF isBinaryOmitted(f, opts)
        THEN <<Entry("blank", 0, <<>>),
               Entry("binary", 0, <<"*", "*">> \o S_binaryFileOmitted \o <<"*", "*">>)>>
        ELSE IF Len(f.hunks) = 0 /\ f.status # "deleted" /\ f.status # "added"
        THEN <<Entry("blank", 0, <<>>), Entry("nochanges", 0, S_noChangesInHunks)>>
        ELSE <<Entry("blank", 0, <<>>)>>
             \o (IF md = "full" THEN renderFullMode(f, m, opts, rp)
                 ELSE renderHunksMode(f)))

\* The full branch of the extension's renderMarkdown: the two catch blocks fall back to
\* file.body (cut at maxFileBytes characters with '\n... (content truncated)' on the
\* staged path)
ext_renderFullMode(f, m, opts, rp) ==
    IF m.hash # <<>>
    THEN LET fullContent == ext_getFullFileContent(rp, f.hunks, opts.maxFileBytes, f.status)
         IN  IF fullContent.ok THEN fenced(fullContent.result)
             ELSE fenced(entriesOf("body", split(f.body, NL)))
    ELSE LET fullContent == ext_getFullFileContentForStaged(rp, f.hunks, f.status,
                                                            opts.maxFileBytes)
         IN  IF fullContent.ok THEN fenced(fullContent.result)
             ELSE fenced(IF Len(f.body) > opts.maxFileBytes
                         THEN entriesOf("body", split(substringTo(f.body, opts.maxFileBytes), NL))
                              \o <<Entry("marker", 0, <<".", ".", ".", " ", "(", "c", "o", "n", "t", "e", "n", "t", " ", "t", "r", "u", "n", "c", "a", "t", "e", "d", ")">>)>>
                         ELSE entriesOf("body", split(f.body, NL)))

\* The body of the loop over files of the extension's renderMarkdown: the lines pushed
ext_renderFile(f, md, m, opts, rp) ==
    fileHeaderEntries(f)
    \o (IF isBinaryOmitted(f, opts)
        THEN <<Entry("blank", 0, <<>>),
               Entry("binary", 0, <<"*", "*">> \o S_binaryFileOmitted \o <<"*", "*">>)>>
        ELSE IF Len(f.hunks) = 0 /\ f.status # "deleted" /\ f.status # "added"
        THEN <<Entry("blank", 0, <<>>), Entry("nochanges", 0, S_noChangesInHunks)>>
        ELSE <<Entry("blank", 0, <<>>)>>
             \o (IF md = "full" THEN ext_renderFullMode(f, m, opts, rp)
                 ELSE renderHunksMode(f)))

-----------------------------------------------------------------------------
(* Well-formed unified diffs, as git writes them: the text the parser is run on *)

\* how many of the file descriptions below a diff is written from
NumFileDescs == 9

\* how many files a diff has at most
MaxFiles == 2

\* A file of a diff: its paths, the header lines that follow the "diff --git" line,
\* and its hunks (the start lines and the body lines; the counts of the hunk header
\* are the body's).
FilePool == <<
    [oldPath |-> <<"x", ".", "t", "s">>, newPath |-> <<"x", ".", "t", "s">>, kind |-> "modified",
      extra |-> <<<<"i", "n", "d", "e", "x", " ", "1", "a", "2", ".", ".", "3", "b", "4", " ", "1", "0", "0", "6", "4", "4">>>>,
      hunks |-> <<[oldStart |-> 1, newStart |-> 1, section |-> <<>>,
               body |-> <<<<" ", "a">>,
                          <<"-", "b">>,
                          <<"+", "c">>>>]>>],
    [oldPath |-> <<"n", ".", "m", "d">>, newPath |-> <<"n", ".", "m", "d">>, kind |-> "added",
      extra |-> <<<<"n", "e", "w", " ", "f", "i", "l", "e", " ", "m", "o", "d", "e", " ", "1", "0", "0", "6", "4", "4">>, <<"i", "n", "d", "e", "x", " ", "0", "0", "0", ".", ".", "3", "b", "4">>>>,
      hunks |-> <<[oldStart |-> 0, newStart |-> 1, section |-> <<>>,
               body |-> <<<<"+", "a">>,
                          <<"+", "é">>>>]>>],
    [oldPath |-> <<"d", ".", "t", "x", "t">>, newPath |-> <<"d", ".", "t", "x", "t">>, kind |-> "deleted",
      extra |-> <<<<"d", "e", "l", "e", "t", "e", "d", " ", "f", "i", "l", "e", " ", "m", "o", "d", "e", " ", "1", "0", "0", "6", "4", "4">>, <<"i", "n", "d", "e", "x", " ", "1", "a", "2", ".", ".", "0", "0", "0">>>>,
      hunks |-> <<[oldStart |-> 1, newStart |-> 0, section |-> <<>>,
               body |-> <<<<"-", "a">>>>]>>],
    [oldPath |-> <<"y", ".", "j", "s">>, newPath |-> <<"y", ".", "j", "s">>, kind |-> "modified",
      extra |-> <<<<"i", "n", "d", "e", "x", " ", "1", "a", "2", ".", ".", "3", "b", "4", " ", "1", "0", "0", "6", "4", "4">>>>,
      hunks |-> <<[oldStart |-> 1, newStart |-> 1, section |-> <<>>,
               body |-> <<<<"+", "+", "+", " ", "b", "/", "y", ".", "j", "s">>,
                          <<" ", "a">>>>],
              [oldStart |-> 5, newStart |-> 6, section |-> <<" ", "f", "n", "(", ")">>,
               body |-> <<<<"-", "-", "-", " ", "a", "/", "y", ".", "j", "s">>,
                          <<"-", "a">>,
                          <<"\\", " ", "N", "o", " ", "n", "e", "w", "l", "i", "n", "e", " ", "a", "t", " ", "e", "n", "d", " ", "o", "f", " ", "f", "i", "l", "e">>,
                          <<"+", "a">>>>]>>],
    [oldPath |-> <<"o", ".", "t", "s">>, newPath |-> <<"p", ".", "t", "s">>, kind |-> "renamed",
      extra |-> <<<<"s", "i", "m", "i", "l", "a", "r", "i", "t", "y", " ", "i", "n", "d", "e", "x", " ", "1", "0", "0", "%">>, <<"r", "e", "n", "a", "m", "e", " ", "f", "r", "o", "m", " ", "o", ".", "t", "s">>, <<"r", "e", "n", "a", "m", "e", " ", "t", "o", " ", "p", ".", "t", "s">>>>,
      hunks |-> <<>>],
    [oldPath |-> <<"i", ".", "p", "n", "g">>, newPath |-> <<"i", ".", "p", "n", "g">>, kind |-> "modified",
      extra |-> <<<<"i", "n", "d", "e", "x", " ", "1", "a", "2", ".", ".", "3", "b", "4", " ", "1", "0", "0", "6", "4", "4">>, <<"B", "i", "n", "a", "r", "y", " ", "f", "i", "l", "e", "s", " ", "a", "/", "i", ".", "p", "n", "g", " ", "a", "n", "d", " ", "b", "/", "i", ".", "p", "n", "g", " ", "d", "i", "f", "f", "e", "r">>>>,
      hunks |-> <<>>],
    [oldPath |-> <<"z", ".", "c">>, newPath |-> <<"z", ".", "c">>, kind |-> "modified",
      extra |-> <<<<"i", "n", "d", "e", "x", " ", "1", "a", "2", ".", ".", "3", "b", "4", " ", "1", "0", "0", "6", "4", "4">>>>,
      hunks |-> <<[oldStart |-> 3, newStart |-> 3, section |-> <<>>,
               body |-> <<<<"-", "a">>,
                          <<"+", "b">>>>]>>],
    [oldPath |-> <<"t", ".", "m", "d">>, newPath |-> <<"t", ".", "m", "d">>, kind |-> "modified",
      extra |-> <<<<"i", "n", "d", "e", "x", " ", "1", "a", "2", ".", ".", "3", "b", "4", " ", "1", "0", "0", "6", "4", "4">>>>,
      hunks |-> <<[oldStart |-> 4, newStart |-> 4, section |-> <<>>,
               body |-> <<<<" ", "a">>,
                          <<"+", "B", "i", "n", "a", "r", "y", " ", "f", "i", "l", "e", "s", " ", "a", "/", "i", ".", "p", "n", "g", " ", "a", "n", "d", " ", "b", "/", "i", ".", "p", "n", "g", " ", "d", "i", "f", "f", "e", "r">>>>]>>],
    [oldPath |-> <<"s", ".", "s", "h">>, newPath |-> <<"s", ".", "s", "h">>, kind |-> "modified",
      extra |-> <<<<"o", "l", "d", " ", "m", "o", "d", "e", " ", "1", "0", "0", "6", "4", "4">>, <<"n", "e", "w", " ", "m", "o", "d", "e", " ", "1", "0", "0", "7", "5", "5">>>>,
      hunks |-> <<>>],
    [oldPath |-> <<"q", ".", "t", "s">>, newPath |-> <<"r", ".", "t", "s">>, kind |-> "renamed",
      extra |-> <<<<"s", "i", "m", "i", "l", "a", "r", "i", "t", "y", " ", "i", "n", "d", "e", "x", " ", "8", "0", "%">>, <<"r", "e", "n", "a", "m", "e", " ", "f", "r", "o", "m", " ", "q", ".", "t", "s">>, <<"r", "e", "n", "a", "m", "e", " ", "t", "o", " ", "r", ".", "t", "s">>, <<"i", "n", "d", "e", "x", " ", "1", "a", "2", ".", ".", "3", "b", "4", " ", "1", "0", "0", "6", "4", "4">>>>,
      hunks |-> <<[oldStart |-> 1, newStart |-> 1, section |-> <<>>,
               body |-> <<<<" ", "a">>,
                          <<"+", "b">>,
                          <<" ", "c">>>>]>>],
    [oldPath |-> <<"c", ".", "t", "s">>, newPath |-> <<"k", ".", "t", "s">>, kind |-> "copied",
      extra |-> <<<<"s", "i", "m", "i", "l", "a", "r", "i", "t", "y", " ", "i", "n", "d", "e", "x", " ", "7", "0", "%">>, <<"c", "o", "p", "y", " ", "f", "r", "o", "m", " ", "c", ".", "t", "s">>, <<"c", "o", "p", "y", " ", "t", "o", " ", "k", ".", "t", "s">>, <<"i", "n", "d", "e", "x", " ", "1", "a", "2", ".", ".", "3", "b", "4", " ", "1", "0", "0", "6", "4", "4">>>>,
      hunks |-> <<[oldStart |-> 2, newStart |-> 2, section |-> <<>>,
               body |-> <<<<"-", "a">>,
                          <<"-", "b">>,
                          <<"+", "c">>>>]>>]
>>

FileDescs == {FilePool[i] : i \in 1..(IF NumFileDescs < Len(FilePool) THEN NumFileDescs ELSE Len(FilePool))}

RECURSIVE SeqsUpTo(_, _)
SeqsUpTo(S, n) ==
    IF n = 0 THEN {<<>>}
    ELSE LET shorter == SeqsUpTo(S, n - 1)
         IN  shorter \cup {Append(q, x) : q \in {r \in shorter : Len(r) = n - 1}, x \in S}

Sources == {[lead |-> l, files |-> fs] : l \in BOOLEAN, fs \in SeqsUpTo(FileDescs, MaxFiles) \ {<<>>}}

bodyOldCount(body) == countStartingWith(body, " ") + countStartingWith(body, "-")
bodyNewCount(body) == countStartingWith(body, " ") + countStartingWith(body, "+")

\* "@@ -oldStart[,oldCount] +newStart[,newCount] @@[ section]": git leaves a count of 1 out
hunkHeaderText(h) ==
    LET range(start, count) ==
            numToString(start) \o (IF count = 1 THEN <<>> ELSE <<",">> \o numToString(count))
    IN  <<"@", "@", " ", "-">> \o range(h.oldStart, bodyOldCount(h.body))
        \o <<" ", "+">> \o range(h.newStart, bodyNewCount(h.body))
        \o <<" ", "@", "@">> \o h.section

hunkText(h) == <<hunkHeaderText(h)>> \o h.body

fileText(fd) ==
    <<S_diffGitA \o fd.oldPath \o S_spaceB \o fd.newPath>>
    \o fd.extra
    \o (IF fd.hunks = <<>> THEN <<>>
        ELSE << (IF fd.kind = "added" THEN <<"-", "-", "-", " ", "/", "d", "e", "v", "/", "n", "u", "l", "l">> ELSE <<"-", "-", "-", " ", "a", "/">> \o fd.oldPath),
                (IF fd.kind = "deleted" THEN <<"+", "+", "+", " ", "/", "d", "e", "v", "/", "n", "u", "l", "l">> ELSE <<"+", "+", "+", " ", "b", "/">> \o fd.newPath) >>)
    \o Flatten([k \in 1..Len(fd.hunks) |-> hunkText(fd.hunks[k])])

\* the output of git show / git diff: every line ends with a newline
sourceText(src) ==
    (IF src.lead THEN <<NL>> ELSE <<>>)
    \o join(Flatten([i \in 1..Len(src.files) |-> fileText(src.files[i])]), NL) \o <<NL>>

\* the hunk body lines of the diff that begin with c
sourceCount(src, c) ==
    SumSeq([i \in 1..Len(src.files) |->
        SumSeq([k \in 1..Len(src.files[i].hunks) |->
            countStartingWith(src.files[i].hunks[k].body, c)])])

-----------------------------------------------------------------------------
(* The parser run: a diff text is parsed, then its changes are counted *)

NoChanges == [additions |-> 0, deletions |-> 0]

IdleRender ==
    /\ engine = "none" /\ meta = <<>> /\ repo = <<>>
    /\ options = <<>> /\ mode = "none" /\ output = <<>> /\ calls = <<>>

IdleContext ==
    /\ analyses = <<>> /\ fileIndex = <<>> /\ authorIndex = <<>> /\ timeIndex = <<>>
    /\ now = 0 /\ lastCall = <<>>

IdleCommand == executed = <<>> /\ gitResult = <<>>

IdleStream ==
    /\ stream = <<>> /\ git = <<>> /\ promise = <<>> /\ timeoutId = "none"
    /\ IdleCommand

InitParser ==
    /\ source \in Sources
    /\ diffText = sourceText(source)
    /\ parsed = <<>> /\ extParsed = <<>>
    /\ changes = NoChanges /\ lineNumbers = <<>>
    /\ ppc = "text"
    /\ IdleRender
    /\ IdleContext
    /\ IdleStream

Parse ==
    /\ ppc = "text"
    /\ parsed' = splitByFile(diffText)
    /\ ppc' = "parsed"
    /\ UNCHANGED <<extParsed, source, diffText, changes, lineNumbers>>
    /\ UNCHANGED renderVars
    /\ UNCHANGED contextVars
    /\ UNCHANGED streamVars
    /\ UNCHANGED commandVars

CountChanges ==
    /\ ppc = "parsed"
    /\ changes' = countChanges(parsed)
    /\ ppc' = "counted"
    /\ UNCHANGED <<extParsed, source, diffText, parsed, lineNumbers>>
    /\ UNCHANGED renderVars
    /\ UNCHANGED contextVars
    /\ UNCHANGED streamVars
    /\ UNCHANGED commandVars

\* getChangedLineNumbers(file.hunks), for every parsed file
GetChangedLineNumbers ==
    /\ ppc = "parsed"
    /\ lineNumbers' = [k \in 1..Len(parsed) |-> getChangedLineNumbers(parsed[k].hunks)]
    /\ ppc' = "numbered"
    /\ UNCHANGED <<extParsed, source, diffText, parsed, changes>>
    /\ UNCHANGED renderVars
    /\ UNCHANGED contextVars
    /\ UNCHANGED streamVars
    /\ UNCHANGED commandVars

NextParser == Parse \/ CountChanges \/ GetChangedLineNumbers

SpecParser == InitParser /\ [][NextParser]_vars

-----------------------------------------------------------------------------
(* The render run: a diff is parsed and handed, with the meta of the change set and
   the options, to MarkdownRenderer.render or to the extension's renderMarkdown; the
   blobs of the repository are read by git show while the files are rendered *)

\* the file descriptions change sets are drawn from (the first NumRenderDescs of the pool)
NumRenderDescs == 15

\* the byte budgets tried, besides the default: 1..MaxBudget
MaxBudget == 6

\* the after-content of the long file has up to MaxAfterLines lines
MaxAfterLines == 13

\* the files a change set of several files is drawn from (the first NumPairDescs)
NumPairDescs == 2

\* maxFileBytes when the setting is absent
DefaultMaxFileBytes == 2000000

\* A file of a change set, as in FilePool, with the content of its blob before and
\* after the change (a deleted file has no after-blob, an added file no before-blob).
RenderPool == <<
    [oldPath |-> <<"x", ".", "t", "s">>, newPath |-> <<"x", ".", "t", "s">>, kind |-> "modified",
      extra |-> <<<<"i", "n", "d", "e", "x", " ", "1", "a", "2", ".", ".", "3", "b", "4", " ", "1", "0", "0", "6", "4", "4">>>>,
      hunks |-> <<[oldStart |-> 1, newStart |-> 1, section |-> <<>>,
               body |-> <<<<" ", "a">>, <<"-", "b">>, <<"+", "c">>, <<" ", "d">>>>]>>,
      before |-> <<"a", "\n", "b", "\n", "d", "\n">>,
      after |-> <<"a", "\n", "c", "\n", "d", "\n">>],
    [oldPath |-> <<"a", "[", "1", "]", ".", "t", "s">>, newPath |-> <<"a", "[", "1", "]", ".", "t", "s">>, kind |-> "modified",
      extra |-> <<<<"i", "n", "d", "e", "x", " ", "1", "a", "2", ".", ".", "3", "b", "4", " ", "1", "0", "0", "6", "4", "4">>>>,
      hunks |-> <<[oldStart |-> 1, newStart |-> 1, section |-> <<>>,
               body |-> <<<<"-", "a">>, <<"+", "b">>>>]>>,
      before |-> <<"a", "\n">>,
      after |-> <<"b", "\n">>],
    [oldPath |-> <<"n", ".", "m", "d">>, newPath |-> <<"n", ".", "m", "d">>, kind |-> "added",
      extra |-> <<<<"n", "e", "w", " ", "f", "i", "l", "e", " ", "m", "o", "d", "e", " ", "1", "0", "0", "6", "4", "4">>,
                  <<"i", "n", "d", "e", "x", " ", "0", "0", "0", ".", ".", "3", "b", "4">>>>,
      hunks |-> <<[oldStart |-> 0, newStart |-> 1, section |-> <<>>,
               body |-> <<<<"+", "a">>, <<"+", "é">>, <<"\\", " ", "N", "o", " ", "n", "e", "w", "l", "i", "n", "e", " ", "a", "t", " ", "e", "n", "d", " ", "o", "f", " ", "f", "i", "l", "e">>>>]>>,
      before |-> <<>>,
      after |-> <<"a", "\n", "é">>],
    [oldPath |-> <<"n", ".", "t", "x", "t">>, newPath |-> <<"n", ".", "t", "x", "t">>, kind |-> "added",
      extra |-> <<<<"n", "e", "w", " ", "f", "i", "l", "e", " ", "m", "o", "d", "e", " ", "1", "0", "0", "6", "4", "4">>,
                  <<"i", "n", "d", "e", "x", " ", "0", "0", "0", ".", ".", "3", "b", "4">>,
                  <<"B", "i", "n", "a", "r", "y", " ", "f", "i", "l", "e", "s", " ", "/", "d", "e", "v", "/", "n", "u", "l", "l", " ", "a", "n", "d", " ", "b", "/", "n", ".", "t", "x", "t", " ", "d", "i", "f", "f", "e", "r">>>>,
      hunks |-> <<>>,
      before |-> <<>>,
      after |-> <<"a", "\n", "b", "\n">>],
    [oldPath |-> <<"d", ".", "t", "x", "t">>, newPath |-> <<"d", ".", "t", "x", "t">>, kind |-> "deleted",
      extra |-> <<<<"d", "e", "l", "e", "t", "e", "d", " ", "f", "i", "l", "e", " ", "m", "o", "d", "e", " ", "1", "0", "0", "6", "4", "4">>,
                  <<"i", "n", "d", "e", "x", " ", "1", "a", "2", ".", ".", "0", "0", "0">>>>,
      hunks |-> <<[oldStart |-> 1, newStart |-> 0, section |-> <<>>,
               body |-> <<<<"-", "a">>, <<"-", "b">>>>]>>,
      before |-> <<"a", "\n", "b", "\n">>,
      after |-> <<>>],
    [oldPath |-> <<"e", ".", "m", "d">>, newPath |-> <<"e", ".", "m", "d">>, kind |-> "deleted",
      extra |-> <<<<"d", "e", "l", "e", "t", "e", "d", " ", "f", "i", "l", "e", " ", "m", "o", "d", "e", " ", "1", "0", "0", "6", "4", "4">>,
                  <<"i", "n", "d", "e", "x", " ", "1", "a", "2", ".", ".", "0", "0", "0">>,
                  <<"B", "i", "n", "a", "r", "y", " ", "f", "i", "l", "e", "s", " ", "a", "/", "e", ".", "m", "d", " ", "a", "n", "d", " ", "/", "d", "e", "v", "/", "n", "u", "l", "l", " ", "d", "i", "f", "f", "e", "r">>>>,
      hunks |-> <<>>,
      before |-> <<"a", "\n">>,
      after |-> <<>>],
    [oldPath |-> <<"o", ".", "t", "s">>, newPath |-> <<"p", ".", "t", "s">>, kind |-> "renamed",
      extra |-> <<<<"s", "i", "m", "i", "l", "a", "r", "i", "t", "y", " ", "i", "n", "d", "e", "x", " ", "1", "0", "0", "%">>,
                  <<"r", "e", "n", "a", "m", "e", " ", "f", "r", "o", "m", " ", "o", ".", "t", "s">>,
                  <<"r", "e", "n", "a", "m", "e", " ", "t", "o", " ", "p", ".", "t", "s">>>>,
      hunks |-> <<>>,
      before |-> <<"a", "\n">>,
      after |-> <<"a", "\n">>],
    [oldPath |-> <<"i", ".", "p", "n", "g">>, newPath |-> <<"i", ".", "p", "n", "g">>, kind |-> "modified",
      extra |-> <<<<"i", "n", "d", "e", "x", " ", "1", "a", "2", ".", ".", "3", "b", "4", " ", "1", "0", "0", "6", "4", "4">>,
                  <<"B", "i", "n", "a", "r", "y", " ", "f", "i", "l", "e", "s", " ", "a", "/", "i", ".", "p", "n", "g", " ", "a", "n", "d", " ", "b", "/", "i", ".", "p", "n", "g", " ", "d", "i", "f", "f", "e", "r">>>>,
      hunks |-> <<>>,
      before |-> <<"x">>,
      after |-> <<"y">>],
    [oldPath |-> <<"q", ".", "t", "s">>, newPath |-> <<"r", ".", "t", "s">>, kind |-> "renamed",
      extra |-> <<<<"s", "i", "m", "i", "l", "a", "r", "i", "t", "y", " ", "i", "n", "d", "e", "x", " ", "6", "6", "%">>,
                  <<"r", "e", "n", "a", "m", "e", " ", "f", "r", "o", "m", " ", "q", ".", "t", "s">>,
                  <<"r", "e", "n", "a", "m", "e", " ", "t", "o", " ", "r", ".", "t", "s">>,
                  <<"i", "n", "d", "e", "x", " ", "1", "a", "2", ".", ".", "3", "b", "4", " ", "1", "0", "0", "6", "4", "4">>>>,
      hunks |-> <<[oldStart |-> 1, newStart |-> 1, section |-> <<>>,
               body |-> <<<<" ", "a">>, <<"+", "b">>, <<" ", "c">>>>]>>,
      before |-> <<"a", "\n", "c", "\n">>,
      after |-> <<"a", "\n", "b", "\n", "c", "\n">>],
    [oldPath |-> <<"c", ".", "t", "s">>, newPath |-> <<"k", ".", "t", "s">>, kind |-> "copied",
      extra |-> <<<<"s", "i", "m", "i", "l", "a", "r", "i", "t", "y", " ", "i", "n", "d", "e", "x", " ", "5", "0", "%">>,
                  <<"c", "o", "p", "y", " ", "f", "r", "o", "m", " ", "c", ".", "t", "s">>,
                  <<"c", "o", "p", "y", " ", "t", "o", " ", "k", ".", "t", "s">>,
                  <<"i", "n", "d", "e", "x", " ", "1", "a", "2", ".", ".", "3", "b", "4", " ", "1", "0", "0", "6", "4", "4">>>>,
      hunks |-> <<[oldStart |-> 1, newStart |-> 1, section |-> <<>>,
               body |-> <<<<"-", "a">>, <<"+", "A">>, <<" ", "b">>>>]>>,
      before |-> <<"a", "\n", "b", "\n">>,
      after |-> <<"A", "\n", "b", "\n">>],
    [oldPath |-> <<"w", ".", "p", "y">>, newPath |-> <<"w", ".", "p", "y">>, kind |-> "modified",
      extra |-> <<<<"i", "n", "d", "e", "x", " ", "1", "a", "2", ".", ".", "3", "b", "4", " ", "1", "0", "0", "6", "4", "4">>>>,
      hunks |-> <<[oldStart |-> 1, newStart |-> 1, section |-> <<>>,
               body |-> <<<<"-", "a">>, <<"+", "A">>, <<" ", "b">>>>],
              [oldStart |-> 4, newStart |-> 4, section |-> <<" ", "d", "e", "f", " ", "f", "(", ")", ":">>,
               body |-> <<<<" ", "d">>, <<"-", "e">>, <<"+", "E">>>>]>>,
      before |-> <<"a", "\n", "b", "\n", "c", "\n", "d", "\n", "e", "\n">>,
      after |-> <<"A", "\n", "b", "\n", "c", "\n", "d", "\n", "E", "\n">>],
    [oldPath |-> <<"y", ".", "j", "s">>, newPath |-> <<"y", ".", "j", "s">>, kind |-> "modified",
      extra |-> <<<<"i", "n", "d", "e", "x", " ", "1", "a", "2", ".", ".", "3", "b", "4", " ", "1", "0", "0", "6", "4", "4">>>>,
      hunks |-> <<[oldStart |-> 1, newStart |-> 1, section |-> <<>>,
               body |-> <<<<" ", "a">>, <<"-", "b">>>>]>>,
      before |-> <<"a", "\n", "b", "\n">>,
      after |-> <<"a", "\n">>],
    [oldPath |-> <<"R", "E", "A", "D", "M", "E">>, newPath |-> <<"R", "E", "A", "D", "M", "E">>, kind |-> "modified",
      extra |-> <<<<"i", "n", "d", "e", "x", " ", "1", "a", "2", ".", ".", "3", "b", "4", " ", "1", "0", "0", "6", "4", "4">>,
                  <<"B", "i", "n", "a", "r", "y", " ", "f", "i", "l", "e", "s", " ", "a", "/", "R", "E", "A", "D", "M", "E", " ", "a", "n", "d", " ", "b", "/", "R", "E", "A", "D", "M", "E", " ", "d", "i", "f", "f", "e", "r">>>>,
      hunks |-> <<>>,
      before |-> <<"a", "\n">>,
      after |-> <<"b", "\n">>],
    [oldPath |-> <<"m", ".", "t", "x", "t">>, newPath |-> <<"m", ".", "t", "x", "t">>, kind |-> "modified",
      extra |-> <<<<"i", "n", "d", "e", "x", " ", "1", "a", "2", ".", ".", "3", "b", "4", " ", "1", "0", "0", "6", "4", "4">>>>,
      hunks |-> <<[oldStart |-> 1, newStart |-> 0, section |-> <<>>,
               body |-> <<<<"-", "a">>, <<"-", "b">>>>]>>,
      before |-> <<"a", "\n", "b", "\n">>,
      after |-> <<>>],
    [oldPath |-> <<"u", ".", "t", "x", "t">>, newPath |-> <<"u", ".", "t", "x", "t">>, kind |-> "modified",
      extra |-> <<<<"i", "n", "d", "e", "x", " ", "1", "a", "2", ".", ".", "3", "b", "4", " ", "1", "0", "0", "6", "4", "4">>>>,
      hunks |-> <<[oldStart |-> 1, newStart |-> 1, section |-> <<>>,
               body |-> <<<<"-", "a">>, <<"+", "A">>>>],
              [oldStart |-> 3, newStart |-> 2, section |-> <<>>,
               body |-> <<<<"-", "b">>>>]>>,
      before |-> <<"a", "\n", "x", "\n", "b", "\n">>,
      after |-> <<"A", "\n", "x", "\n">>]
>>

\* A file long enough for a hunk at line 10: n after-lines; either the hunk replaces
\* line 11 between two context lines, or it inserts lines 10 to 12
longFileDesc(n, inserted) ==
    LET textOf(ls) == join(ls, NL) \o <<NL>>
    IN  [oldPath |-> <<"z", ".", "c">>, newPath |-> <<"z", ".", "c">>, kind |-> "modified",
         extra |-> <<<<"i", "n", "d", "e", "x", " ", "1", "a", "2", ".", ".", "3", "b", "4", " ", "1", "0", "0", "6", "4", "4">>>>,
         hunks |-> IF inserted
                   THEN <<[oldStart |-> 9, newStart |-> 10, section |-> <<>>,
                           body |-> <<<<"+", "p">>, <<"+", "q">>, <<"+", "r">>>>]>>
                   ELSE <<[oldStart |-> 10, newStart |-> 10, section |-> <<>>,
                           body |-> <<<<" ", "x">>, <<"-", "y">>, <<"+", "z">>, <<" ", "x">>>>]>>,
         before |-> IF inserted THEN textOf([i \in 1..(n - 3) |-> <<"x">>])
                    ELSE textOf([i \in 1..n |-> IF i = 11 THEN <<"y">> ELSE <<"x">>]),
         after |-> IF inserted
                   THEN textOf([i \in 1..n |-> IF i = 10 THEN <<"p">> ELSE IF i = 11 THEN <<"q">>
                                               ELSE IF i = 12 THEN <<"r">> ELSE <<"x">>])
                   ELSE textOf([i \in 1..n |-> IF i = 11 THEN <<"z">> ELSE <<"x">>])]

RenderDescs ==
    {RenderPool[i] : i \in 1..(IF NumRenderDescs < Len(RenderPool) THEN NumRenderDescs
                                ELSE Len(RenderPool))}
    \cup {longFileDesc(n, ins) : n \in 12..MaxAfterLines, ins \in BOOLEAN}

PairDescs == {RenderPool[i] : i \in 1..NumPairDescs}

\* the change sets rendered: one file of RenderDescs, or none or two of PairDescs
ChangeSets ==
    {<<d>> : d \in RenderDescs} \cup {<<>>} \cup {<<d, e>> : d \in PairDescs, e \in PairDescs}

\* CommitMeta of a commit, and of the staged changes (runExport: hash '', short 'staged')
CommitMetas == {
    [hash |-> <<"0", "1", "2", "3", "4", "5", "6", "7", "8", "9">>, short |-> <<"0", "1", "2", "3", "4", "5", "6">>, title |-> <<"t">>, message |-> <<"t", "\n", "b">>,
     author |-> <<"A">>, date |-> <<"D">>],
    [hash |-> <<>>, short |-> <<"s", "t", "a", "g", "e", "d">>, title |-> <<"S", "t", "a", "g", "e", "d", " ", "C", "h", "a", "n", "g", "e", "s">>, message |-> <<"S", "t", "a", "g", "e", "d", " ", "C", "h", "a", "n", "g", "e", "s">>,
     author |-> <<>>, date |-> <<"D">>] }

\* maxFileBytes is a number setting read without a check (secure-git.ts 781): negative,
\* zero, the small budgets, and the default
Budgets == (0 - 1)..MaxBudget \cup {DefaultMaxFileBytes}

RenderOptions == [maxFileBytes : Budgets, detectBinary : BOOLEAN]

\* What git show finds for a file: the blob, or nothing (the path is not in that tree,
\* git fails). fetch says which of the two reads of the file fail.
blobsOf(d, fetch) ==
    [after |-> IF d.kind = "deleted" \/ fetch = "noAfter" THEN NoBlob ELSE <<d.after>>,
     before |-> IF d.kind = "added" \/ fetch = "noBefore" THEN NoBlob ELSE <<d.before>>]

\* getShortHash(hash), getTitle(message)
getShortHash(hash) == substringTo(hash, 7)
getTitle(message) == split(message, NL)[1]

\* '# [Commit <short> - ]<title>', and the author, date and hash lines
metaEntries(short, title, m) ==
    <<Entry("title", 0, <<"#", " ">>
                        \o (IF m.hash # <<>> THEN <<"C", "o", "m", "m", "i", "t", " ">> \o short \o <<" ", "-", " ">>
                            ELSE <<>>)
                        \o title)>>
    \o (IF m.author # <<>> \/ m.date # <<>>
        THEN <<Entry("blank", 0, <<>>)>>
             \o (IF m.author # <<>> THEN <<Entry("meta", 0, <<"-", " ", "*", "*", "A", "u", "t", "h", "o", "r", "*", "*", ":", " ">> \o m.author)>> ELSE <<>>)
             \o (IF m.date # <<>> THEN <<Entry("meta", 0, <<"-", " ", "*", "*", "D", "a", "t", "e", "*", "*", ":", " ">> \o m.date)>> ELSE <<>>)
             \o (IF m.hash # <<>> THEN <<Entry("meta", 0, <<"-", " ", "*", "*", "H", "a", "s", "h", "*", "*", ":", " ">> \o m.hash)>> ELSE <<>>)
        ELSE <<>>)

\* the entries of file k of the change set
ofFile(entries, k) == [i \in 1..Len(entries) |-> [entries[i] EXCEPT !.file = k]]

\* the rest of render / renderMarkdown after the meta lines; pushed[k] is what the
\* loop pushes for file k
filesEntries_lastFirst(fs, pushed) ==
    IF Len(fs) = 0
    THEN <<Entry("blank", 0, <<>>), Entry("nofiles", 0, <<"N", "o", " ", "f", "i", "l", "e", "s", " ", "c", "h", "a", "n", "g", "e", "d", ".">>)>>
    ELSE <<Entry("blank", 0, <<>>), Entry("heading", 0, <<"#", "#", " ", "F", "i", "l", "e", "s", " ", "C", "h", "a", "n", "g", "e", "d">>)>>
         \o Flatten([k \in 1..Len(fs) |-> ofFile(pushed[Len(fs) + 1 - k], Len(fs) + 1 - k)])

filesEntries(fs, pushed) ==
    IF Len(fs) = 0
    THEN <<Entry("blank", 0, <<>>), Entry("nofiles", 0, <<"N", "o", " ", "f", "i", "l", "e", "s", " ", "c", "h", "a", "n", "g", "e", "d", ".">>)>>
    ELSE <<Entry("blank", 0, <<>>), Entry("heading", 0, <<"#", "#", " ", "F", "i", "l", "e", "s", " ", "C", "h", "a", "n", "g", "e", "d">>)>>
         \o Flatten([k \in 1..Len(fs) |-> ofFile(pushed[k], k)])

\* MarkdownRenderer.render(meta, files, mode, options), mode 'full' or 'hunks'
render(m, fs, md, opts, rp) ==
    metaEntries(getShortHash(m.hash), getTitle(m.message), m)
    \o filesEntries(fs, [k \in 1..Len(fs) |-> renderFile(fs[k], md, m, opts, rp[k])])

\* renderMarkdown(meta, files, mode, options) of the extension
renderMarkdown(m, fs, md, opts, rp) ==
    metaEntries(m.short, m.title, m)
    \o filesEntries(fs, [k \in 1..Len(fs) |-> ext_renderFile(fs[k], md, m, opts, rp[k])])

InitRender ==
    /\ \E cs \in ChangeSets : source = [lead |-> FALSE, files |-> cs]
    /\ diffText = (IF source.files = <<>> THEN <<>> ELSE sourceText(source))
    /\ parsed = <<>> /\ extParsed = <<>>
    /\ changes = NoChanges /\ lineNumbers = <<>>
    /\ ppc = "text"
    /\ engine \in {"core", "ext"}
    /\ meta \in CommitMetas
    /\ \E fetch \in [1..Len(source.files) -> {"all", "noAfter", "noBefore"}] :
          repo = [k \in 1..Len(source.files) |-> blobsOf(source.files[k], fetch[k])]
    /\ options \in RenderOptions
    /\ Len(source.files) # 1 => options.maxFileBytes \in {1, DefaultMaxFileBytes}
    /\ mode \in {"full", "hunks"}
    /\ output = <<>>
    /\ calls = <<>>
    /\ IdleContext
    /\ IdleStream

MarkdownRenderer_render ==
    /\ ppc = "parsed"
    /\ engine = "core"
    /\ output' = render(meta, parsed, mode, options, repo)
    /\ ppc' = "rendered"
    /\ UNCHANGED <<extParsed, source, diffText, parsed, changes, lineNumbers, engine, meta, repo, options, mode, calls>>
    /\ UNCHANGED contextVars
    /\ UNCHANGED streamVars
    /\ UNCHANGED commandVars

Ext_renderMarkdown ==
    /\ ppc = "parsed"
    /\ engine = "ext"
    /\ output' = renderMarkdown(meta, parsed, mode, options, repo)
    /\ ppc' = "rendered"
    /\ UNCHANGED <<extParsed, source, diffText, parsed, changes, lineNumbers, engine, meta, repo, options, mode, calls>>
    /\ UNCHANGED contextVars
    /\ UNCHANGED streamVars
    /\ UNCHANGED commandVars

\* Parse: the extension's copy of splitByFile sets the same fields without the aliases,
\* which its renderer does not read
NextRender == Parse \/ MarkdownRenderer_render \/ Ext_renderMarkdown

SpecRender == InitRender /\ [][NextRender]_vars

\* every file of the diff is parsed into one DiffFile
TypeRender == ppc # "text" => Len(parsed) = Len(source.files)

-----------------------------------------------------------------------------
(* Properties of the rendered files *)

\* the lines pushed for file k of the change set
section(k) ==
    LET ofK(e) == e.file = k
    IN  SelectSeq(output, ofK)

\* the lines between the fences of file k: the string pushed by the full or hunks mode
block(k) ==
    LET sec == section(k)
        fences == {i \in 1..Len(sec) : sec[i].kind = "fence"}
    IN  IF fences = {} THEN <<>>
        ELSE SubSeq(sec, (CHOOSE i \in fences : \A j \in fences : i <= j) + 1,
                         (CHOOSE i \in fences : \A j \in fences : j <= i) - 1)

hasKind(entries, kind) == \E i \in 1..Len(entries) : entries[i].kind = kind

ofKinds(entries, kinds) ==
    LET keep(e) == e.kind \in kinds
    IN  SelectSeq(entries, keep)

strings(entries) == [i \in 1..Len(entries) |-> entries[i].s]

\* the lines of a blob as the renderers split it
blobLines(content) == split(content, NL)

prefixedLines(content, prefix) ==
    [i \in 1..Len(blobLines(content)) |-> <<prefix>> \o blobLines(content)[i]]

\* file k was rendered in full mode and went past the binary and no-hunks notices
fullRendered(k) ==
    /\ ppc = "rendered" /\ mode = "full"
    /\ hasKind(section(k), "fence")

RenderedFiles == IF ppc = "rendered" THEN 1..Len(parsed) ELSE {}

\* C2: an added file with N after-lines and no hunks, rendered in full mode with a
\* budget that does not truncate, yields exactly N lines, the i-th being '+' followed by
\* after-line i, on the commit path and on the staged path.
C2_AddedFileAllLinesAdded ==
    \A k \in RenderedFiles :
        (/\ fullRendered(k)
         /\ parsed[k].status = "added" /\ parsed[k].hunks = <<>>
         /\ repo[k].after # NoBlob
         /\ options.maxFileBytes = DefaultMaxFileBytes)
        => strings(block(k)) = prefixedLines(source.files[k].after, "+")

\* the staged added file without hunks rendered by the extension: its after-lines come
\* out with the prefix of an unchanged line
C2_StagedAddedUntagged ==
    /\ fullRendered(1) /\ engine = "ext" /\ meta.hash = <<>>
    /\ parsed[1].status = "added" /\ parsed[1].hunks = <<>>
    /\ repo[1].after # NoBlob
    /\ options.maxFileBytes = DefaultMaxFileBytes
    /\ strings(block(1)) = prefixedLines(source.files[1].after, " ")

\* C3: a deleted file rendered in full mode with a budget that does not truncate yields
\* every before-line with the prefix '-', in order, and no other content line, on the
\* commit path and on the staged path.
C3_DeletedFileAllLinesRemoved ==
    \A k \in RenderedFiles :
        (/\ fullRendered(k)
         /\ parsed[k].status = "deleted"
         /\ repo[k].before # NoBlob
         /\ options.maxFileBytes = DefaultMaxFileBytes)
        => strings(ofKinds(block(k), {"before", "after", "removed", "marker", "placeholder", "body"}))
             = prefixedLines(source.files[k].before, "-")

\* the staged deleted file rendered by the extension: no before-line is in the output
C3_StagedDeletedLosesBefore ==
    /\ fullRendered(1) /\ engine = "ext" /\ meta.hash = <<>>
    /\ parsed[1].status = "deleted"
    /\ repo[1].before # NoBlob
    /\ options.maxFileBytes = DefaultMaxFileBytes
    /\ ~hasKind(block(1), "before") /\ ~hasKind(block(1), "removed")
    /\ strings(ofKinds(block(1), {"after"})) = <<<<" ">>>>

\* the after-line numbers of the lines a hunk of the diff records as added: the hunk's
\* start plus the context and added lines in front of the line
addedPositions(h) ==
    LET inAfter(j) == h.body[j][1] \in {" ", "+"}
    IN  {h.newStart + Cardinality({i \in 1..(j - 1) : inAfter(i)}) :
            j \in {j \in 1..Len(h.body) : h.body[j][1] = "+"}}

\* file k is a modified file whose only hunk declares newStart 10 and newCount 3
soleHunkAtTen(k) ==
    /\ parsed[k].status = "modified"
    /\ Len(parsed[k].hunks) = 1
    /\ parsed[k].hunks[1].newStart = 10 /\ parsed[k].hunks[1].newCount = 3

\* C4 as stated: for a modified file whose sole hunk declares newStart=10 and
\* newCount=3, full mode tags after-lines 10, 11 and 12 as added or changed and every
\* other after-line as unchanged, whatever the length of the after-file.
C4_HunkRangeTagged ==
    \A k \in RenderedFiles :
        (/\ fullRendered(k) /\ soleHunkAtTen(k)
         /\ repo[k].after # NoBlob
         /\ options.maxFileBytes = DefaultMaxFileBytes)
        => \A i \in 1..Len(blobLines(source.files[k].after)) :
              \E j \in 1..Len(block(k)) :
                  /\ block(k)[j].kind = "after" /\ block(k)[j].n = i
                  /\ SubSeq(block(k)[j].s, 2, Len(block(k)[j].s))
                        = blobLines(source.files[k].after)[i]
                  /\ block(k)[j].s[1] \in (IF i \in 10..12 THEN {"+", "!"} ELSE {" "})

\* C4 amended: for a modified file whose sole hunk declares newStart=10 and newCount=3,
\* MarkdownRenderer tags the after-lines 10, 11 and 12 as changed ('!') and every other
\* after-line as unchanged; the extension tags as added ('+') exactly the after-lines
\* that the hunk records as added, all of them within 10..12, and every other after-line,
\* the context lines of the hunk included, as unchanged; in both, every after-line is
\* emitted when nothing is truncated, whatever the length of the after-file.
C4_HunkRangeTaggedPerEngine ==
    \A k \in RenderedFiles :
        (fullRendered(k) /\ soleHunkAtTen(k) /\ repo[k].after # NoBlob)
        => LET added == addedPositions(source.files[k].hunks[1])
               tagOf(i) == IF engine = "core" THEN (IF i \in 10..12 THEN "!" ELSE " ")
                           ELSE (IF i \in added THEN "+" ELSE " ")
               afterLines == blobLines(source.files[k].after)
           IN  /\ added \subseteq 10..12
               /\ \A j \in 1..Len(block(k)) :
                     block(k)[j].kind = "after"
                     => block(k)[j].s[1] = tagOf(block(k)[j].n)
               /\ options.maxFileBytes = DefaultMaxFileBytes
                  => strings(ofKinds(block(k), {"after"}))
                        = [i \in 1..Len(afterLines) |-> <<tagOf(i)>> \o afterLines[i]]

\* the extension has rendered a hunk at 10 with context lines: line 11 is tagged added,
\* lines 10 and 12 unchanged
C4_Witness ==
    /\ fullRendered(1) /\ soleHunkAtTen(1) /\ engine = "ext"
    /\ options.maxFileBytes = DefaultMaxFileBytes
    /\ \A i \in 10..12 :
          \E j \in 1..Len(block(1)) :
              /\ block(1)[j].kind = "after" /\ block(1)[j].n = i
              /\ block(1)[j].s[1] = (IF i = 11 THEN "+" ELSE " ")

\* file k is reported as binary and its path is not one of the text files
binaryNotText(k) == parsed[k].isBinary /\ ~isLikelyTextFile(filePathOf(parsed[k]))

\* C5 as stated: a binary file whose path is not on the text-file list (a .png) gets, in
\* full mode, the binary notice and no content, with detectBinary true and with
\* detectBinary false.
C5_BinaryAlwaysOmitted ==
    \A k \in RenderedFiles :
        (mode = "full" /\ binaryNotText(k))
        => hasKind(section(k), "binary") /\ ~hasKind(section(k), "fence")

\* C5 amended: a binary file whose path is not on the text-file list gets the binary
\* notice and no content when detectBinary is true; when detectBinary is false the
\* notice is not written and the file is rendered as any other file.
C5_BinaryOmittedWhenDetecting ==
    \A k \in RenderedFiles :
        binaryNotText(k)
        => IF options.detectBinary
           THEN /\ hasKind(section(k), "binary")
                /\ ~hasKind(section(k), "fence") /\ ~hasKind(section(k), "nochanges")
           ELSE /\ ~hasKind(section(k), "binary")
                /\ hasKind(section(k), "fence") \/ hasKind(section(k), "nochanges")

\* a .png file reported as binary, rendered in full mode with detectBinary true
C5_Witness ==
    /\ ppc = "rendered" /\ mode = "full" /\ Len(parsed) = 1
    /\ binaryNotText(1) /\ options.detectBinary
    /\ endsWith(filePathOf(parsed[1]), <<".", "p", "n", "g">>)
    /\ hasKind(section(1), "binary")

\* the lines hunks mode is to show for a file of the diff: per hunk, the header and the
\* added and removed lines
hunkChangeLines(fd) ==
    LET isChange(line) == line[1] \in {"+", "-"}
    IN  Flatten([i \in 1..Len(fd.hunks) |->
                    <<hunkHeaderText(fd.hunks[i])>> \o SelectSeq(fd.hunks[i].body, isChange)])

descCount(fd, c) ==
    SumSeq([i \in 1..Len(fd.hunks) |-> countStartingWith(fd.hunks[i].body, c)])

\* the block of file k is the hunks' headers and changes, and the line after the block is
\* the totals line of the file
hunksBlockThenTotals(k) ==
    LET sec == section(k)
        fd == source.files[k]
    IN  /\ hasKind(sec, "fence")
        /\ strings(block(k)) = hunkChangeLines(fd)
        /\ sec[Len(sec)].kind = "totals"
        /\ sec[Len(sec)].s = changesLine(descCount(fd, "+"), descCount(fd, "-")).s
        /\ sec[Len(sec) - 1].kind = "fence"
        /\ Len(ofKinds(sec, {"totals"})) = 1

\* C6 as stated: in hunks mode every modified or renamed file gets a block with, per
\* hunk in order, the header and exactly the added and removed lines of the hunk, and
\* the block is followed by a totals line with the added and removed counts.
C6_HunksBlockAndTotals ==
    \A k \in RenderedFiles :
        (mode = "hunks" /\ parsed[k].status \in {"modified", "renamed"})
        => hunksBlockThenTotals(k)

\* C6 amended: in hunks mode every modified or renamed file that has at least one hunk
\* and is not given the binary notice gets the block of headers and added and removed
\* lines, followed by the totals line (written when the file has an added or a removed
\* line); a modified or renamed file without hunks, such as a pure rename, gets the
\* "No changes in hunks." notice (or the binary notice) and neither block nor totals line.
C6_HunksBlockAndTotalsWhenHunks ==
    \A k \in RenderedFiles :
        (mode = "hunks" /\ parsed[k].status \in {"modified", "renamed"})
        => IF Len(parsed[k].hunks) >= 1 /\ ~hasKind(section(k), "binary")
           THEN IF descCount(source.files[k], "+") + descCount(source.files[k], "-") > 0
                THEN hunksBlockThenTotals(k)
                ELSE strings(block(k)) = hunkChangeLines(source.files[k])
                     /\ ~hasKind(section(k), "totals")
           ELSE /\ ~hasKind(section(k), "fence") /\ ~hasKind(section(k), "totals")
                /\ hasKind(section(k), "nochanges") \/ hasKind(section(k), "binary")

\* a modified file of two hunks with context lines, rendered in hunks mode
C6_Witness ==
    /\ ppc = "rendered" /\ mode = "hunks" /\ Len(parsed) = 1
    /\ parsed[1].status = "modified" /\ Len(parsed[1].hunks) = 2
    /\ \E i \in 1..2 : \E j \in 1..Len(parsed[1].hunks[i].lines) :
          parsed[1].hunks[i].lines[j][1] = " "
    /\ Len(ofKinds(block(1), {"header"})) = 2
    /\ Len(ofKinds(block(1), {"change"})) = 4
    /\ hasKind(section(1), "totals")

\* the truncation markers of a block: the positions of its marker lines
markerPositions(b) == {j \in 1..Len(b) : b[j].kind = "marker"}

\* C7: when the byte total of a full-mode reconstruction would exceed maxBytes, one
\* truncation marker is appended and it is the last line of the reconstruction: no
\* added, unchanged or removed line follows it.
C7_MarkerIsLast ==
    \A k \in RenderedFiles :
        (fullRendered(k) /\ engine = "ext" /\ markerPositions(block(k)) # {})
        => markerPositions(block(k)) = {Len(block(k))}

\* a reconstruction of the extension stopped at the marker and then pushed the removed
\* lines set past the last after-line
C7_RemovedAfterMarker ==
    /\ fullRendered(1) /\ engine = "ext"
    /\ \E j \in markerPositions(block(1)) :
          /\ j < Len(block(1))
          /\ \A i \in (j + 1)..Len(block(1)) : block(1)[i].kind = "removed"

\* the blob whose lines full mode shows for file k, and the maxBuffer of its git show
shownBlob(k) == IF parsed[k].status = "deleted" THEN repo[k].before ELSE repo[k].after

fetchLimit ==
    IF engine = "ext" /\ meta.hash # <<>> THEN ShMaxBuffer ELSE options.maxFileBytes

\* the size of the lines of a block other than the marker: the UTF-8 bytes of each line
\* and one byte for its terminator
emittedBytes(b) ==
    SumSeq([j \in 1..Len(b) |-> IF b[j].kind = "marker" THEN 0 ELSE byteLength(b[j].s) + 1])

\* C8: for every file, hunks and positive maxBytes, the lines emitted by a full-mode
\* reconstruction, the truncation marker aside, total at most maxBytes bytes (each line
\* counted with one terminator byte).
C8_EmittedWithinBudget ==
    \A k \in RenderedFiles :
        (fullRendered(k) /\ engine = "ext")
        => emittedBytes(block(k)) <= options.maxFileBytes

\* a reconstruction of the extension from a blob that was fetched: a removed line was
\* pushed without a look at the budget, and the file's lines alone, the hunk headers
\* not counted, are over maxBytes
C8_OverBudget ==
    /\ fullRendered(1) /\ engine = "ext"
    /\ repo[1].after # NoBlob
    /\ byteLength(repo[1].after[1]) <= fetchLimit
    /\ hasKind(block(1), "removed")
    /\ emittedBytes(ofKinds(block(1), {"after", "removed"})) > options.maxFileBytes

\* what the lines of a content cost in the byte budget: prefix, line and terminator
linesCost(content) ==
    SumSeq([i \in 1..Len(blobLines(content)) |-> byteLength(blobLines(content)[i]) + 2])

\* a size limit is exceeded for file k: the blob is larger than the maxBuffer of its
\* git show, or its lines cost more than the byte budget of the reconstruction
sizeLimitExceeded(k) ==
    /\ shownBlob(k) # NoBlob
    /\ \/ byteLength(shownBlob(k)[1]) > fetchLimit
       \/ /\ engine = "ext"
          /\ linesCost(shownBlob(k)[1]) > options.maxFileBytes

\* C9: whenever full-mode output leaves out content of a file because a size limit is
\* exceeded (the byte budget, or the limit of the fetch of the blob), the output of the
\* file holds a truncation marker.
C9_NoSilentDrop ==
    \A k \in RenderedFiles :
        (/\ fullRendered(k)
         /\ parsed[k].status # "deleted"
         /\ sizeLimitExceeded(k)
         /\ Len(ofKinds(block(k), {"after"})) < Len(blobLines(shownBlob(k)[1])))
        => hasKind(block(k), "marker")

\* a staged file whose blob is larger than maxFileBytes, rendered by the extension:
\* the fetch fails, one empty unchanged line stands for the file, and no marker
C9_StagedBlobOverLimit ==
    /\ fullRendered(1) /\ engine = "ext" /\ meta.hash = <<>>
    /\ parsed[1].status = "modified"
    /\ repo[1].after # NoBlob
    /\ byteLength(repo[1].after[1]) > options.maxFileBytes
    /\ strings(ofKinds(block(1), {"after"})) = <<<<" ">>>>
    /\ ~hasKind(block(1), "marker")

\* the recorded lines of the hunks of file k: the body of the diff of the file, or the
\* lines of its hunks, with or without the headers
recordedLines(k) ==
    { LET ls == split(parsed[k].body, NL)
      IN  IF ls[Len(ls)] = <<>> THEN SubSeq(ls, 1, Len(ls) - 1) ELSE ls,
      split(parsed[k].body, NL),
      Flatten([i \in 1..Len(parsed[k].hunks) |-> parsed[k].hunks[i].lines]),
      Flatten([i \in 1..Len(parsed[k].hunks) |->
                  <<parsed[k].hunks[i].header>> \o parsed[k].hunks[i].lines]) }

\* C10: for a modified, renamed or copied file whose before-content or after-content
\* cannot be retrieved, the full-mode output of the file is the recorded lines of its
\* hunks, verbatim, and not a reconstruction from partial content.
C10_FallbackToHunkLines ==
    \A k \in RenderedFiles :
        (/\ fullRendered(k)
         /\ parsed[k].status \in {"modified", "renamed", "copied"}
         /\ repo[k].after = NoBlob \/ repo[k].before = NoBlob
         /\ options.maxFileBytes = DefaultMaxFileBytes)
        => strings(block(k)) \in recordedLines(k)

\* a commit's modified file whose after-blob git cannot show, rendered by the
\* extension: the hunk headers, then one empty unchanged line, and no line of a hunk
C10_ReconstructedFromNothing ==
    /\ fullRendered(1) /\ engine = "ext" /\ meta.hash # <<>>
    /\ parsed[1].status = "modified"
    /\ repo[1].after = NoBlob /\ repo[1].before # NoBlob
    /\ options.maxFileBytes = DefaultMaxFileBytes
    /\ strings(ofKinds(block(1), {"after"})) = <<<<" ">>>>
    /\ ~hasKind(block(1), "body")
    /\ strings(block(1)) \notin recordedLines(1)

\* the lines of the output that belong to a file of the change set
perFileOutput ==
    LET ofAFile(e) == e.file # 0
    IN  SelectSeq(output, ofAFile)

\* C11: a render with malformed options, a maxFileBytes that is zero or negative, fails
\* before any file is processed: what it returns holds no per-file output.
C11_NonPositiveBudgetFailsFast ==
    (ppc = "rendered" /\ options.maxFileBytes <= 0) => perFileOutput = <<>>

\* a render with maxFileBytes zero or negative that returned the section of a file with
\* a fenced block in full mode
C11_RenderedWithNonPositiveBudget ==
    /\ ppc = "rendered" /\ options.maxFileBytes <= 0
    /\ mode = "full" /\ Len(parsed) = 1
    /\ hasKind(section(1), "section") /\ hasKind(section(1), "fence")

\* the content a renderer holds after its git show of a blob: the blob, or '' when git
\* fails or the blob is over the maxBuffer of the fetch
heldContent(blob) ==
    IF blob # NoBlob /\ byteLength(blob[1]) <= fetchLimit THEN blob[1] ELSE <<>>

\* the '-' lines recorded in the hunks of file k
hunkRemovedLines(k) ==
    UNION {{parsed[k].hunks[i].lines[j] :
                j \in {j \in 1..Len(parsed[k].hunks[i].lines) :
                          parsed[k].hunks[i].lines[j][1] = "-"}} :
            i \in 1..Len(parsed[k].hunks)}

\* C12 as stated: every line inside a full-mode fenced block, the truncation marker
\* aside, begins with exactly one of '+', '-', ' ' or '!', followed by the line's text.
C12_EveryLinePrefixed ==
    \A k \in RenderedFiles :
        fullRendered(k)
        => \A j \in 1..Len(block(k)) :
              block(k)[j].kind # "marker"
              => /\ block(k)[j].s # <<>>
                 /\ block(k)[j].s[1] \in {"+", "-", " ", "!"}

\* C12 amended: inside a full-mode fenced block, every line that renders a line of the
\* file (an after-line, a before-line, or a removed line of a hunk) begins with exactly
\* one of '+', '-', ' ' or '!' ('+', ' ' or '!' on an after-line, '-' on a before-line
\* and on a removed line) followed by the text of that line unchanged; the other lines of
\* the block are the hunk headers and the empty line after them (extension), a
\* placeholder for content that is not available (MarkdownRenderer), the lines of the
\* diff body (fallback), and the truncation marker.
C12_ContentLinesPrefixed ==
    \A k \in RenderedFiles :
        fullRendered(k)
        => \A j \in 1..Len(block(k)) :
              LET e == block(k)[j]
                  rest == SubSeq(e.s, 2, Len(e.s))
              IN  CASE e.kind = "after" ->
                         /\ e.s # <<>> /\ e.s[1] \in {"+", " ", "!"}
                         /\ e.s[1] = "!" => engine = "core"
                         /\ e.s[1] = "+" /\ parsed[k].status # "added" => engine = "ext"
                         /\ rest = blobLines(IF parsed[k].status = "deleted" THEN <<>>
                                             ELSE heldContent(repo[k].after))[e.n]
                    [] e.kind = "before" ->
                         /\ e.s # <<>> /\ e.s[1] = "-"
                         /\ rest = blobLines(heldContent(repo[k].before))[e.n]
                    [] e.kind = "removed" ->
                         /\ e.s \in hunkRemovedLines(k)
                         /\ engine = "ext"
                    [] OTHER -> e.kind \in {"header", "blank", "placeholder", "body", "marker"}

\* MarkdownRenderer has rendered a modified file in full mode: a block with changed
\* lines ('!' and the text) and unchanged lines (' ' and the text)
C12_Witness ==
    /\ fullRendered(1) /\ engine = "core"
    /\ parsed[1].status = "modified"
    /\ \E i, j \in 1..Len(block(1)) :
          /\ block(1)[i].kind = "after" /\ block(1)[i].s[1] = "!"
          /\ Len(block(1)[i].s) > 1
          /\ block(1)[j].kind = "after" /\ block(1)[j].s[1] = " "

\* the section line of a file of the diff: '### ' and its path
sectionLineOf(fd) == <<"#", "#", "#", " ">> \o fd.newPath

\* C13: in every render the per-file sections appear in the output in the order of the
\* files of the input sequence (their order in the diff), whatever the statuses of the
\* files and whichever fetches of content succeed or fail.
C13_SectionsInInputOrder ==
    ppc = "rendered"
    => /\ strings(ofKinds(output, {"section"}))
            = [k \in 1..Len(source.files) |-> sectionLineOf(source.files[k])]
       /\ \A i, j \in 1..Len(output) :
             (i < j /\ output[i].file # 0) => output[i].file <= output[j].file

\* two different files rendered, the fetch of the first one's content failing and the
\* second one's succeeding
C13_Witness ==
    /\ ppc = "rendered" /\ mode = "full"
    /\ Len(source.files) = 2
    /\ source.files[1].newPath # source.files[2].newPath
    /\ repo[1].after = NoBlob /\ repo[2].after # NoBlob
    /\ hasKind(section(1), "fence") /\ hasKind(section(2), "fence")

\* file k has its section in the output: the '### path' line and then the binary
\* notice, the no-changes notice or a fenced block
sectionComplete(k) ==
    /\ Len(ofKinds(section(k), {"section"})) = 1
    /\ \/ hasKind(section(k), "binary")
       \/ hasKind(section(k), "nochanges")
       \/ Len(ofKinds(section(k), {"fence"})) = 2

\* C14: a failure while one file is processed (its content cannot be fetched, its path
\* is refused as unsafe, a size limit is exceeded) does not keep the other files from
\* being rendered: the render returns, and its output has a section for every file of
\* the input sequence.
C14_EveryFileHasSection ==
    ppc = "rendered"
    => /\ Len(ofKinds(output, {"section"})) = Len(source.files)
       /\ \A k \in 1..Len(source.files) : sectionComplete(k)

\* MarkdownRenderer has rendered two files in full mode: the git show of the first is
\* refused (unsafe characters in the path) and its block is the diff body; the second
\* file has its block
C14_Witness ==
    /\ ppc = "rendered" /\ mode = "full" /\ engine = "core"
    /\ Len(source.files) = 2
    /\ hasUnsafeCharacters(filePathOf(parsed[1]))
    /\ hasKind(block(1), "body")
    /\ ~hasUnsafeCharacters(filePathOf(parsed[2]))
    /\ sectionComplete(2) /\ hasKind(block(2), "after")

-----------------------------------------------------------------------------
(* The reconstruction run: one file is parsed and its full-mode block is
   reconstructed several times, with a request chosen for each call *)

MaxCalls == 3

\* the maxFileBytes of a call: a small budget, under which the block is truncated, or
\* the default
CallBudgets == {MaxBudget - 3, DefaultMaxFileBytes}

\* what a call is made with besides the file, its hunks and the blobs of the repository:
\* the staged changes or the commit, and maxFileBytes
Requests == [staged : BOOLEAN, maxFileBytes : CallBudgets]

metaOf(rq) == CHOOSE m \in CommitMetas : (m.hash = <<>>) <=> rq.staged

\* The fenced block of one file in full mode: renderFullMode of MarkdownRenderer, or the
\* full-mode branch of the extension's renderMarkdown. Every accumulator of the
\* reconstruction (totalSize, the line maps, the changed-line sets) is a local of the
\* call, so the block is a function of the call's arguments.
fullModeBlock(eng, rq, f, rp) ==
    LET opts == [maxFileBytes |-> rq.maxFileBytes, detectBinary |-> TRUE]
    IN  IF eng = "core" THEN renderFullMode(f, metaOf(rq), opts, rp)
        ELSE ext_renderFullMode(f, metaOf(rq), opts, rp)

InitReconstruct ==
    /\ \E d \in RenderDescs : source = [lead |-> FALSE, files |-> <<d>>]
    /\ diffText = sourceText(source)
    /\ parsed = <<>> /\ extParsed = <<>> /\ changes = NoChanges /\ lineNumbers = <<>> /\ ppc = "text"
    /\ engine \in {"core", "ext"}
    /\ meta = <<>>
    /\ \E fetch \in {"all", "noAfter", "noBefore"} : repo = <<blobsOf(source.files[1], fetch)>>
    /\ options = <<>>
    /\ mode = "full"
    /\ output = <<>>
    /\ calls = <<>>
    /\ IdleContext
    /\ IdleStream

\* One more full-mode reconstruction of the parsed file. The first definition is a
\* reconstruction whose size total is kept from one call to the next.
Reconstruct_sharedTotal ==
    /\ ppc = "parsed"
    /\ Len(calls) < MaxCalls
    /\ \E rq \in Requests :
          calls' = Append(calls,
                          [request |-> rq,
                           result |-> fullModeBlock(engine,
                                         [rq EXCEPT !.maxFileBytes =
                                             @ - SumSeq([i \in 1..Len(calls) |->
                                                         emittedBytes(calls[i].result)])],
                                         parsed[1], repo[1])])
    /\ UNCHANGED <<extParsed, source, diffText, parsed, changes, lineNumbers, ppc, engine, meta, repo, options,
                   mode, output>>
    /\ UNCHANGED contextVars
    /\ UNCHANGED streamVars
    /\ UNCHANGED commandVars

Reconstruct ==
    /\ ppc = "parsed"
    /\ Len(calls) < MaxCalls
    /\ \E rq \in Requests :
          calls' = Append(calls,
                          [request |-> rq,
                           result |-> fullModeBlock(engine, rq, parsed[1], repo[1])])
    /\ UNCHANGED <<extParsed, source, diffText, parsed, changes, lineNumbers, ppc, engine, meta, repo, options,
                   mode, output>>
    /\ UNCHANGED contextVars
    /\ UNCHANGED streamVars
    /\ UNCHANGED commandVars

NextReconstruct == Parse \/ Reconstruct

SpecReconstruct == InitReconstruct /\ [][NextReconstruct]_vars

-----------------------------------------------------------------------------
(* The corrupt-tail run: the text of a well-formed diff is followed by a section that
   is not one, and the whole is parsed *)

\* The sections that follow the diff: a block whose "diff --git" line has no a/ and b/
\* paths, a hunk whose header does not have the form of a hunk header, and a line that
\* is no diff line at all
CorruptTails == {
    <<<<"d", "i", "f", "f", " ", "-", "-", "g", "i", "t", " ", "x", " ", "y">>, <<"@", "@", " ", "-", "1", " ", "+", "1", " ", "@", "@">>, <<"+", "q">>>>,
    <<<<"@", "@", " ", "-", "a", ",", "b", " ", "+", "c", " ", "@", "@">>, <<"+", "q">>>>,
    <<<<"g", "a", "r", "b", "a", "g", "e">>>> }

tailText(tail) == join(tail, NL) \o <<NL>>

InitCorrupt ==
    /\ \E src \in Sources, tail \in CorruptTails :
          /\ source = [lead |-> src.lead, files |-> src.files, tail |-> tail]
          /\ diffText = sourceText(src) \o tailText(tail)
    /\ parsed = <<>> /\ extParsed = <<>>
    /\ changes = NoChanges /\ lineNumbers = <<>>
    /\ ppc = "text"
    /\ IdleRender
    /\ IdleContext
    /\ IdleStream

NextCorrupt == Parse

SpecCorrupt == InitCorrupt /\ [][NextCorrupt]_vars

\* what C16 names of a DiffFile: status, paths, hunks and hunk lines
recordOf(f) == [status |-> f.status, pathA |-> f.pathA, pathB |-> f.pathB, hunks |-> f.hunks]

\* the records parsed from the diff alone, without the section that follows it
recordsAlone == LET fs == splitByFile(sourceText(source)) IN [k \in 1..Len(fs) |-> recordOf(fs[k])]

\* C16: the parser never raises, and an unparseable block or hunk is left out without
\* an effect on the rest: the records (status, paths, hunks, hunk lines) of the
\* well-formed files are the same whether or not a corrupt section follows them.
C16_CorruptTailLeavesRecords ==
    ppc = "parsed"
    => /\ Len(parsed) = Len(source.files)
       /\ \A k \in 1..Len(source.files) : recordOf(parsed[k]) = recordsAlone[k]

\* a diff whose last file has one hunk, followed by a hunk with a malformed header: the
\* file is parsed with two hunks, both holding the line of the malformed hunk
C16_MalformedHunkJoinsLastFile ==
    /\ ppc = "parsed"
    /\ startsWith(source.tail[1], S_atat)
    /\ Len(source.files[Len(source.files)].hunks) = 1
    /\ Len(parsed[Len(parsed)].hunks) = 2
    /\ parsed[Len(parsed)].hunks[1] = parsed[Len(parsed)].hunks[2]
    /\ \E i \in 1..Len(parsed[Len(parsed)].hunks[1].lines) :
          parsed[Len(parsed)].hunks[1].lines[i] = source.tail[2]


\* the lines of a parsed file before its first hunk header (its header field)
headerLines(f) == split(f.header, NL)

hasBinaryMarker(line) ==
    (includes(line, S_binaryFiles) /\ includes(line, S_differ)) \/ includes(line, S_gitBinaryPatch)

\* the status the header lines give: that of the marker present, modified without one
headerStatus(f) ==
    LET marked(marker) == \E i \in 1..Len(headerLines(f)) : startsWith(headerLines(f)[i], marker)
    IN  IF marked(S_newFileMode) THEN "added"
        ELSE IF marked(S_deletedFileMode) THEN "deleted"
        ELSE IF marked(S_renameFrom) THEN "renamed"
        ELSE IF marked(S_copyFrom) THEN "copied"
        ELSE "modified"

headerIsBinary(f) == \E i \in 1..Len(headerLines(f)) : hasBinaryMarker(headerLines(f)[i])

\* C17: the status and isBinary of every parsed DiffFile are those of the block's
\* header lines (the lines before the first hunk header): status is modified when no
\* header line has a marker, isBinary is true exactly when a header line has a binary
\* marker, and the text of the hunk body lines changes neither.
C17_StatusAndBinaryFromHeader ==
    ppc # "text"
    => \A k \in 1..Len(parsed) :
          /\ parsed[k].status = headerStatus(parsed[k])
          /\ parsed[k].isBinary = headerIsBinary(parsed[k])

\* a file whose header lines have no binary marker and whose hunk has an added line
\* with the words of one is parsed as binary
C17_BinaryFromBodyLine ==
    /\ ppc = "parsed"
    /\ \E k \in 1..Len(parsed) :
          /\ ~headerIsBinary(parsed[k])
          /\ parsed[k].isBinary
          /\ \E h \in 1..Len(parsed[k].hunks) : \E i \in 1..Len(parsed[k].hunks[h].lines) :
                /\ startsWith(parsed[k].hunks[h].lines[i], <<"+">>)
                /\ hasBinaryMarker(parsed[k].hunks[h].lines[i])

\* the lines of a parsed file from its first '@@' line on (its body field)
bodyLines(f) == IF f.body = <<>> THEN <<>> ELSE split(f.body, NL)

\* the hunk-header lines of the file that have the form
\* '@@ -oldStart[,oldCount] +newStart[,newCount] @@', in order of appearance
matchingHeaders(f) ==
    LET isHeader(line) == startsWith(line, S_atat) /\ matchHunkHeader(line).ok
    IN  SelectSeq(bodyLines(f), isHeader)

\* C18: for every sequence of lines, parseHunks returns one hunk for each hunk-header
\* line of the form '@@ -oldStart[,oldCount] +newStart[,newCount] @@', in order of
\* appearance, a count that is left out being 1: every hunk is flushed into the result
\* once, none twice and none lost.
C18_OneHunkPerHeader ==
    ppc = "parsed"
    => \A k \in 1..Len(parsed) :
          /\ [i \in 1..Len(parsed[k].hunks) |-> parsed[k].hunks[i].header]
                = matchingHeaders(parsed[k])
          /\ \A i \in 1..Len(source.files[k].hunks) :
                i <= Len(parsed[k].hunks)
                => /\ parsed[k].hunks[i].oldCount = bodyOldCount(source.files[k].hunks[i].body)
                   /\ parsed[k].hunks[i].newCount = bodyNewCount(source.files[k].hunks[i].body)

\* the lines of a file hold one well-formed hunk header and, after it, a line that
\* begins with '@@' and is none: the hunk is in the result twice
C18_HunkPushedTwice ==
    /\ ppc = "parsed"
    /\ \E k \in 1..Len(parsed) :
          /\ Len(matchingHeaders(parsed[k])) = 1
          /\ \E i \in 1..Len(bodyLines(parsed[k])) :
                startsWith(bodyLines(parsed[k])[i], S_atat)
                /\ ~matchHunkHeader(bodyLines(parsed[k])[i]).ok
          /\ Len(parsed[k].hunks) = 2
          /\ parsed[k].hunks[1].header = parsed[k].hunks[2].header

\* C19: for every well-formed diff text, every parsed hunk has as many context and
\* removed lines together as its oldCount, and as many context and added lines
\* together as its newCount.
C19_HunkCountsMatchLines ==
    ppc # "text"
    => \A k \in 1..Len(parsed) : \A h \in 1..Len(parsed[k].hunks) :
          LET hunk == parsed[k].hunks[h]
          IN  /\ countStartingWith(hunk.lines, " ") + countStartingWith(hunk.lines, "-")
                    = hunk.oldCount
              /\ countStartingWith(hunk.lines, " ") + countStartingWith(hunk.lines, "+")
                    = hunk.newCount

\* a parsed diff with a hunk of context, removed and added lines, and a hunk whose
\* header leaves a count out and whose body has a '\ No newline at end of file' line
C19_Witness ==
    /\ ppc = "parsed"
    /\ \E k \in 1..Len(parsed) : \E h \in 1..Len(parsed[k].hunks) :
          /\ countStartingWith(parsed[k].hunks[h].lines, " ") >= 1
          /\ countStartingWith(parsed[k].hunks[h].lines, "-") >= 1
          /\ countStartingWith(parsed[k].hunks[h].lines, "+") >= 1
    /\ \E k \in 1..Len(parsed) : \E h \in 1..Len(parsed[k].hunks) :
          /\ matchHunkHeader(parsed[k].hunks[h].header).newCount = <<>>
          /\ parsed[k].hunks[h].newCount = 1
          /\ Len(source.files[k].hunks[h].body) > Len(parsed[k].hunks[h].lines)

\* The line numbers of a hunk of the diff, from its description: the line at index i of
\* the body is line oldStart + (the context and removed lines before it) of the
\* before-file and line newStart + (the context and added lines before it) of the
\* after-file.
oldNumberAt(h, i) == h.oldStart + bodyOldCount(SubSeq(h.body, 1, i - 1))
newNumberAt(h, i) == h.newStart + bodyNewCount(SubSeq(h.body, 1, i - 1))

removedNumbers(h) ==
    LET at == SelectSeq([i \in 1..Len(h.body) |-> i],
                        LAMBDA i : startsWith(h.body[i], <<"-">>))
    IN  [j \in 1..Len(at) |-> oldNumberAt(h, at[j])]

addedNumbers(h) ==
    LET at == SelectSeq([i \in 1..Len(h.body) |-> i],
                        LAMBDA i : startsWith(h.body[i], <<"+">>))
    IN  [j \in 1..Len(at) |-> newNumberAt(h, at[j])]

\* C20: getChangedLineNumbers walks every hunk with an old counter from oldStart and a
\* new counter from newStart (both advance on a context line, the new one on an added
\* line, the old one on a removed line); for well-formed hunks 'new' is the after-file
\* line numbers of the added lines, all within newStart..newStart+newCount-1, and 'old'
\* the before-file line numbers of the removed lines, all within
\* oldStart..oldStart+oldCount-1.
C20_ChangedLineNumbers ==
    ppc = "numbered"
    => \A k \in 1..Len(source.files) :
          LET hs == source.files[k].hunks
          IN  /\ lineNumbers[k].old = Flatten([h \in 1..Len(hs) |-> removedNumbers(hs[h])])
              /\ lineNumbers[k].new = Flatten([h \in 1..Len(hs) |-> addedNumbers(hs[h])])
              /\ \A h \in 1..Len(hs) :
                    /\ \A n \in Range(removedNumbers(hs[h])) :
                          /\ parsed[k].hunks[h].oldStart <= n
                          /\ n <= parsed[k].hunks[h].oldStart + parsed[k].hunks[h].oldCount - 1
                    /\ \A n \in Range(addedNumbers(hs[h])) :
                          /\ parsed[k].hunks[h].newStart <= n
                          /\ n <= parsed[k].hunks[h].newStart + parsed[k].hunks[h].newCount - 1

\* the line numbers of a file with two hunks, the second after a context line of the
\* first, and of a file whose added line follows a context and a removed line
C20_Witness ==
    /\ ppc = "numbered"
    /\ \E k \in 1..Len(parsed) :
          /\ Len(parsed[k].hunks) = 2
          /\ lineNumbers[k] = [old |-> <<5, 6>>, new |-> <<1, 6>>]
    /\ \E k \in 1..Len(parsed) :
          /\ Len(parsed[k].hunks) = 1
          /\ Len(parsed[k].hunks[1].lines) = 3
          /\ lineNumbers[k] = [old |-> <<2>>, new |-> <<2>>]

\* the runs of removed lines of a hunk of the diff: the index of the first line of each
removedRunStarts(h) ==
    {i \in 1..Len(h.body) : h.body[i][1] = "-" /\ (i = 1 \/ h.body[i - 1][1] # "-")}

\* the run of removed lines that starts at index i of the hunk's body
removedRunAt(h, i) ==
    LET e == CHOOSE e \in i..Len(h.body) :
                /\ \A j \in i..e : h.body[j][1] = "-"
                /\ (e = Len(h.body) \/ h.body[e + 1][1] # "-")
    IN  SubSeq(h.body, i, e)

\* the after-line cursor where the run occurs: the hunk's newStart plus the context
\* and added lines in front of the run
cursorAt(h, i) == h.newStart + bodyNewCount(SubSeq(h.body, 1, i - 1))

\* the run is in block b right before after-line c, or at the end of b when the
\* after-file has fewer than c lines
runBeforeLine(b, run, c, afterCount) ==
    \E j \in 1..Len(b) :
        /\ j + Len(run) - 1 <= Len(b)
        /\ \A r \in 1..Len(run) : b[j + r - 1].kind = "removed" /\ b[j + r - 1].s = run[r]
        /\ IF c <= afterCount
           THEN /\ j + Len(run) <= Len(b)
                /\ b[j + Len(run)].kind = "after" /\ b[j + Len(run)].n = c
           ELSE j + Len(run) - 1 = Len(b)

\* file k is a modified, renamed or copied file reconstructed by the extension from
\* its fetched after-content, without truncation
extReconstructed(k) ==
    /\ fullRendered(k) /\ engine = "ext"
    /\ parsed[k].status \in {"modified", "renamed", "copied"}
    /\ repo[k].after # NoBlob
    /\ options.maxFileBytes = DefaultMaxFileBytes

\* C21: in the full-mode reconstruction of a modified, renamed or copied file every run
\* of removed lines is emitted right before the after-file line in front of which it
\* was deleted (the line whose number is the after-line cursor where the run occurs in
\* the hunk, so that removed lines precede the added lines that replace them), and
\* removed lines at the end of the file are emitted after the final line.
C21_RemovedBeforeReplacement ==
    \A k \in RenderedFiles :
        extReconstructed(k)
        => \A h \in 1..Len(source.files[k].hunks) :
              \A i \in removedRunStarts(source.files[k].hunks[h]) :
                 runBeforeLine(block(k),
                               removedRunAt(source.files[k].hunks[h], i),
                               cursorAt(source.files[k].hunks[h], i),
                               Len(blobLines(source.files[k].after)))

\* the extension has reconstructed a file in which an added line replaces a removed
\* line: the removed line comes out after the added line
C21_RemovedAfterReplacement ==
    /\ extReconstructed(1)
    /\ \E i, j \in 1..Len(block(1)) :
          /\ i < j
          /\ block(1)[i].kind = "after" /\ block(1)[i].s[1] = "+"
          /\ block(1)[j].kind = "removed"
          /\ \E h \in 1..Len(source.files[1].hunks) :
                \E r \in removedRunStarts(source.files[1].hunks[h]) :
                   /\ cursorAt(source.files[1].hunks[h], r) = block(1)[i].n
                   /\ removedRunAt(source.files[1].hunks[h], r)[1] = block(1)[j].s

-----------------------------------------------------------------------------
(* src/core/context-manager.ts: ContextManager. Time is counted in days. A manager is
   the record cm = [analyses, fileIndex, authorIndex, timeIndex] of its four Maps. *)

\* the analyses the calls are made with (the first NumAnalyses of the pool)
NumAnalyses == 5

\* config.maxHistorySize and config.maxContextAge (in days) of the manager
MaxHistorySize == 2
MaxContextAge == 4

\* Date.now() at the first call, and how many days pass at most
NowStart == 10
MaxDays == 1

\* how many calls are made on the manager at most
MaxOps == 4

\* timeWindow of getRelatedContext: 7 days
TimeWindow == 7

\* .slice(0, 10)
MaxResults == 10

\* The relevance scores in units of 1/70: 0.4 per shared file, 0.2 for the author, 0.1
\* for the risk level, (1 - timeDiff / timeWindow) * 0.3 for the time, and the
\* relevanceThreshold 0.1 of DEFAULT_CONFIG
FileScore == 28
AuthorScore == 14
RiskScore == 7
timeScore(timeDiff) == (TimeWindow - timeDiff) * 3
RelevanceThreshold == 7

AnalysisPool == <<
    [commitHash |-> "h1", files |-> <<"f1">>, author |-> "a1", timestamp |-> 9, riskLevel |-> "low"],
    [commitHash |-> "h2", files |-> <<"f1", "f2">>, author |-> "a2", timestamp |-> 9, riskLevel |-> "high"],
    [commitHash |-> "h1", files |-> <<"f2">>, author |-> "a2", timestamp |-> 8, riskLevel |-> "low"],
    [commitHash |-> "h5", files |-> <<"f1">>, author |-> "a2", timestamp |-> 10, riskLevel |-> "low"],
    [commitHash |-> "h4", files |-> <<>>, author |-> "a1", timestamp |-> 5, riskLevel |-> "low"],
    [commitHash |-> "h3", files |-> <<"f2">>, author |-> "a1", timestamp |-> 7, riskLevel |-> "high"],
    [commitHash |-> "h6", files |-> <<"f3">>, author |-> "a3", timestamp |-> 10, riskLevel |-> "medium"]
>>

Analyses == {AnalysisPool[i] : i \in 1..(IF NumAnalyses < Len(AnalysisPool) THEN NumAnalyses
                                          ELSE Len(AnalysisPool))}

CommitHashes == {a.commitHash : a \in Analyses}

\* Set.add, Set.delete and Map.delete on insertion-ordered collections
seqHas(s, x) == \E i \in 1..Len(s) : s[i] = x
setAdd(s, x) == IF seqHas(s, x) THEN s ELSE Append(s, x)
seqDelete(s, x) == LET keep(y) == y # x IN SelectSeq(s, keep)
mapDelete(map, k) == [x \in (DOMAIN map) \ {k} |-> map[x]]
mapGet(map, k) == IF mapHas(map, k) THEN map[k] ELSE <<>>

\* this.analyses.get(hash): <<>> for undefined; this.analyses.set(hash, analysis): the
\* value of a key that is present is replaced where it stands
analysesGet(an, hash) ==
    IF \E i \in 1..Len(an) : an[i].commitHash = hash
    THEN <<an[CHOOSE i \in 1..Len(an) : an[i].commitHash = hash]>>
    ELSE <<>>

analysesSet(an, a) ==
    IF \E i \in 1..Len(an) : an[i].commitHash = a.commitHash
    THEN [i \in 1..Len(an) |-> IF an[i].commitHash = a.commitHash THEN a ELSE an[i]]
    ELSE Append(an, a)

analysesDelete(an, hash) == LET keep(a) == a.commitHash # hash IN SelectSeq(an, keep)

\* this.timeIndex.set(timestamp, hash) and this.timeIndex.delete(timestamp)
timeIndexSet(ti, timestamp, hash) ==
    IF \E i \in 1..Len(ti) : ti[i].timestamp = timestamp
    THEN [i \in 1..Len(ti) |-> IF ti[i].timestamp = timestamp
                                THEN [timestamp |-> timestamp, hash |-> hash] ELSE ti[i]]
    ELSE Append(ti, [timestamp |-> timestamp, hash |-> hash])

timeIndexDelete(ti, timestamp) == LET keep(e) == e.timestamp # timestamp IN SelectSeq(ti, keep)

\* the loop of addAnalysis over analysis.files
RECURSIVE indexFiles(_, _, _, _)
indexFiles(fi, files, i, hash) ==
    IF i > Len(files) THEN fi
    ELSE indexFiles(mapSet(fi, files[i], setAdd(mapGet(fi, files[i]), hash)), files, i + 1, hash)

\* the loop of pruneOldContext over analysis.files: the hash is deleted from the set
\* of each file that has one, and a set left empty is deleted from the index
RECURSIVE unindexFiles(_, _, _, _)
unindexFiles(fi, files, i, hash) ==
    IF i > Len(files) THEN fi
    ELSE LET file == files[i]
             left == seqDelete(mapGet(fi, file), hash)
         IN  unindexFiles(IF ~mapHas(fi, file) THEN fi
                          ELSE IF left = <<>> THEN mapDelete(fi, file)
                          ELSE mapSet(fi, file, left),
                          files, i + 1, hash)

\* One iteration of the delete loop of pruneOldContext
pruneDelete(cm, hash) ==
    LET found == analysesGet(cm.analyses, hash)
    IN  IF found = <<>> THEN cm
        ELSE LET analysis == found[1]
                 left == seqDelete(mapGet(cm.authorIndex, analysis.author), hash)
             IN  [analyses |-> analysesDelete(cm.analyses, hash),
                  fileIndex |-> unindexFiles(cm.fileIndex, analysis.files, 1, hash),
                  authorIndex |-> IF ~mapHas(cm.authorIndex, analysis.author) THEN cm.authorIndex
                                  ELSE IF left = <<>> THEN mapDelete(cm.authorIndex, analysis.author)
                                  ELSE mapSet(cm.authorIndex, analysis.author, left),
                  timeIndex |-> timeIndexDelete(cm.timeIndex, analysis.timestamp)]

RECURSIVE pruneDeleteAll(_, _, _)
pruneDeleteAll(cm, toDelete, i) ==
    IF i > Len(toDelete) THEN cm
    ELSE pruneDeleteAll(pruneDelete(cm, toDelete[i]), toDelete, i + 1)

\* Array.prototype.sort with a comparator on a number key: stable, ascending
\* (keys[i] is the key of seq[i])
sortAscending(seq, keys) ==
    LET rank(i) == 1 + Cardinality({j \in 1..Len(seq) :
                        keys[j] < keys[i] \/ (keys[j] = keys[i] /\ j < i)})
    IN  [p \in 1..Len(seq) |-> seq[CHOOSE i \in 1..Len(seq) : rank(i) = p]]

\* the hashes pruneOldContext selects because of their age
tooOld(an, clock, maxAge) ==
    LET old(a) == clock - a.timestamp > maxAge
        olds == SelectSeq(an, old)
    IN  [i \in 1..Len(olds) |-> olds[i].commitHash]

\* the hashes pruneOldContext selects because of the size limit: the excess first
\* analyses of those left, sorted by timestamp; the first definition is a selection of
\* the analyses stored first
overLimit_firstStored(an, old, maxSize) ==
    LET kept(a) == ~seqHas(old, a.commitHash)
        totalCount == Len(an) - Len(old)
    IN  IF totalCount > maxSize
        THEN [i \in 1..(totalCount - maxSize) |-> SelectSeq(an, kept)[i].commitHash]
        ELSE <<>>

overLimit(an, old, maxSize) ==
    LET kept(a) == ~seqHas(old, a.commitHash)
        left == SelectSeq(an, kept)
        totalCount == Len(an) - Len(old)
        sortedAnalyses == sortAscending(left, [i \in 1..Len(left) |-> left[i].timestamp])
    IN  IF totalCount > maxSize
        THEN [i \in 1..(totalCount - maxSize) |-> sortedAnalyses[i].commitHash]
        ELSE <<>>

\* pruneOldContext() at time clock
pruneOldContext(cm, clock) ==
    LET old == tooOld(cm.analyses, clock, MaxContextAge)
    IN  pruneDeleteAll(cm, old \o overLimit(cm.analyses, old, MaxHistorySize), 1)

\* addAnalysis(analysis) at time clock: the store, the three indices, then the prune
addAnalysis(cm, a, clock) ==
    pruneOldContext(
        [analyses |-> analysesSet(cm.analyses, a),
         fileIndex |-> indexFiles(cm.fileIndex, a.files, 1, a.commitHash),
         authorIndex |-> mapSet(cm.authorIndex, a.author,
                                setAdd(mapGet(cm.authorIndex, a.author), a.commitHash)),
         timeIndex |-> timeIndexSet(cm.timeIndex, a.timestamp, a.commitHash)],
        clock)

\* clear()
EmptyManager == [analyses |-> <<>>, fileIndex |-> EmptyMap, authorIndex |-> EmptyMap,
                 timeIndex |-> <<>>]

\* importContext(list) at time clock: clear(), then addAnalysis for each element
RECURSIVE importFrom(_, _, _, _)
importFrom(cm, list, i, clock) ==
    IF i > Len(list) THEN cm
    ELSE importFrom(addAnalysis(cm, list[i], clock), list, i + 1, clock)

importContext(list, clock) == importFrom(EmptyManager, list, 1, clock)

\* exportContext()
exportContext(cm) == cm.analyses

\* getStats()
getStats(cm) ==
    LET timestamps == {cm.timeIndex[i].timestamp : i \in 1..Len(cm.timeIndex)}
    IN  [totalAnalyses |-> Len(cm.analyses),
         uniqueFiles |-> Cardinality(DOMAIN cm.fileIndex),
         uniqueAuthors |-> Cardinality(DOMAIN cm.authorIndex),
         oldestTimestamp |-> IF timestamps = {} THEN 0
                             ELSE CHOOSE t \in timestamps : \A u \in timestamps : t <= u,
         newestTimestamp |-> IF timestamps = {} THEN 0
                             ELSE CHOOSE t \in timestamps : \A u \in timestamps : u <= t]

abs(x) == IF x < 0 THEN 0 - x ELSE x

\* The hashes getRelatedContext(commitHash) adds to relatedHashes and the score it adds
\* for each, in the order of the four loops: files, time, author, risk level
relatedScores(cm, analysis) ==
    LET h == analysis.commitHash
        others(hashes, score) ==
            LET other(x) == x # h
                os == SelectSeq(hashes, other)
            IN  [i \in 1..Len(os) |-> [hash |-> os[i], score |-> score]]
        byFile == Flatten([i \in 1..Len(analysis.files) |->
                              others(mapGet(cm.fileIndex, analysis.files[i]), FileScore)])
        near(e) == e.hash # h /\ abs(e.timestamp - analysis.timestamp) < TimeWindow
        nears == SelectSeq(cm.timeIndex, near)
        byTime == [i \in 1..Len(nears) |->
                      [hash |-> nears[i].hash,
                       score |-> timeScore(abs(nears[i].timestamp - analysis.timestamp))]]
        byAuthor == others(mapGet(cm.authorIndex, analysis.author), AuthorScore)
        sameRisk(a) == a.commitHash # h /\ a.riskLevel = analysis.riskLevel
        risks == SelectSeq(cm.analyses, sameRisk)
        byRisk == [i \in 1..Len(risks) |-> [hash |-> risks[i].commitHash, score |-> RiskScore]]
    IN  byFile \o byTime \o byAuthor \o byRisk

\* relatedHashes, a Set in insertion order
RECURSIVE relatedHashesOf(_, _)
relatedHashesOf(scores, i) ==
    IF i = 0 THEN <<>> ELSE setAdd(relatedHashesOf(scores, i - 1), scores[i].hash)

\* getRelatedContext(commitHash): results holds <<analysis>> for an analysis and <<>>
\* for undefined (the value of this.analyses.get(hash)! when hash is no key).
\* generateContextSummary reads the files of every result (countFileOverlaps), which
\* throws a TypeError on undefined: ok is FALSE and the call returns nothing.
getRelatedContext(cm, commitHash) ==
    LET found == analysesGet(cm.analyses, commitHash)
    IN  IF found = <<>> THEN [ok |-> TRUE, results |-> <<>>, totalCount |-> 0]
        ELSE
          LET scores == relatedScores(cm, found[1])
              relatedHashes == relatedHashesOf(scores, Len(scores))
              relevance(hash) ==
                  SumSeq([i \in 1..Len(scores) |->
                             IF scores[i].hash = hash THEN scores[i].score ELSE 0])
              items == [i \in 1..Len(relatedHashes) |->
                           [analysis |-> analysesGet(cm.analyses, relatedHashes[i]),
                            relevance |-> relevance(relatedHashes[i])]]
              relevant(item) == item.relevance >= RelevanceThreshold
              filtered == SelectSeq(items, relevant)
              sorted == sortAscending(filtered,
                                      [i \in 1..Len(filtered) |-> 0 - filtered[i].relevance])
              top == SubSeq(sorted, 1, IF Len(sorted) < MaxResults THEN Len(sorted)
                                       ELSE MaxResults)
              results == [i \in 1..Len(top) |-> top[i].analysis]
          IN  [ok |-> ~seqHas(results, <<>>), results |-> results, totalCount |-> Len(results)]

-----------------------------------------------------------------------------
(* The context run: calls on one ContextManager, while the days pass *)

manager == [analyses |-> analyses, fileIndex |-> fileIndex, authorIndex |-> authorIndex,
            timeIndex |-> timeIndex]

calledSoFar == IF lastCall = <<>> THEN 0 ELSE lastCall.count

\* the manager after a call, and the record of the call: what it was called with and
\* when, its results (getRelatedContext), and the export and the stats of the manager
\* before the call
Called(cm, op, arg, results) ==
    /\ calledSoFar < MaxOps
    /\ analyses' = cm.analyses
    /\ fileIndex' = cm.fileIndex
    /\ authorIndex' = cm.authorIndex
    /\ timeIndex' = cm.timeIndex
    /\ lastCall' = [op |-> op, arg |-> arg, results |-> results,
                    count |-> calledSoFar + 1, at |-> now,
                    before |-> [analyses |-> exportContext(manager),
                                stats |-> getStats(manager)]]
    /\ UNCHANGED now
    /\ UNCHANGED parserVars
    /\ UNCHANGED renderVars
    /\ UNCHANGED streamVars
    /\ UNCHANGED commandVars

InitContext ==
    /\ source = <<>> /\ diffText = <<>> /\ parsed = <<>> /\ extParsed = <<>>
    /\ changes = NoChanges /\ lineNumbers = <<>> /\ ppc = "context"
    /\ IdleRender
    /\ IdleStream
    /\ analyses = <<>> /\ fileIndex = EmptyMap /\ authorIndex = EmptyMap /\ timeIndex = <<>>
    /\ now = NowStart
    /\ lastCall = <<>>

AddAnalysis == \E a \in Analyses : Called(addAnalysis(manager, a, now), "addAnalysis", <<a>>, <<>>)

PruneOldContext == Called(pruneOldContext(manager, now), "pruneOldContext", <<>>, <<>>)

Clear == Called(EmptyManager, "clear", <<>>, <<>>)

\* the lists importContext is called with: the manager's own export, and the slices of
\* the pool
ImportLists ==
    {exportContext(manager)}
    \cup {SubSeq(AnalysisPool, i, j) : i, j \in 1..Cardinality(Analyses)}

ImportContext ==
    \E list \in ImportLists : Called(importContext(list, now), "importContext", list, <<>>)

GetRelatedContext ==
    \E h \in CommitHashes :
        Called(manager, "getRelatedContext", <<h>>, getRelatedContext(manager, h))

\* a day passes
Tick ==
    /\ now < NowStart + MaxDays
    /\ now' = now + 1
    /\ UNCHANGED <<analyses, fileIndex, authorIndex, timeIndex, lastCall>>
    /\ UNCHANGED parserVars
    /\ UNCHANGED renderVars
    /\ UNCHANGED streamVars
    /\ UNCHANGED commandVars

NextContext ==
    AddAnalysis \/ PruneOldContext \/ Clear \/ ImportContext \/ GetRelatedContext \/ Tick

SpecContext == InitContext /\ [][NextContext]_vars

\* the manager is as a completed call of one of ops left it
after(ops) == lastCall # <<>> /\ lastCall.op \in ops

\* the analyses an addAnalysis call had in the store when it went on to prune
storedAtPrune == analysesSet(lastCall.before.analyses, lastCall.arg[1])

\* C23: after every completed addAnalysis or importContext call the number of stored
\* analyses is at most maxHistorySize and no stored analysis is older than
\* maxContextAge; when the size limit forces an eviction, the analyses evicted are those
\* with the smallest timestamps.
C23_PrunedAfterAdd ==
    /\ after({"addAnalysis", "importContext"})
       => /\ Len(analyses) <= MaxHistorySize
          /\ \A i \in 1..Len(analyses) : lastCall.at - analyses[i].timestamp <= MaxContextAge
    /\ after({"addAnalysis"})
       => \A i \in 1..Len(storedAtPrune) :
             (/\ lastCall.at - storedAtPrune[i].timestamp <= MaxContextAge
              /\ ~seqHas(analyses, storedAtPrune[i]))
             => \A j \in 1..Len(analyses) :
                   storedAtPrune[i].timestamp <= analyses[j].timestamp

\* an addAnalysis on a full store: the analysis added is kept and a stored analysis
\* that is not too old, with a smaller timestamp, is evicted
C23_Witness ==
    /\ after({"addAnalysis"})
    /\ Len(lastCall.before.analyses) = MaxHistorySize
    /\ Len(analyses) = MaxHistorySize
    /\ seqHas(analyses, lastCall.arg[1])
    /\ \E i \in 1..Len(lastCall.before.analyses) :
          /\ ~seqHas(analyses, lastCall.before.analyses[i])
          /\ lastCall.before.analyses[i].commitHash # lastCall.arg[1].commitHash
          /\ lastCall.at - lastCall.before.analyses[i].timestamp <= MaxContextAge
          /\ lastCall.before.analyses[i].timestamp < lastCall.arg[1].timestamp

storedHashes == {analyses[i].commitHash : i \in 1..Len(analyses)}

\* the commit hashes held in the three indices
indexedHashes ==
    UNION {Range(fileIndex[f]) : f \in DOMAIN fileIndex}
    \cup UNION {Range(authorIndex[a]) : a \in DOMAIN authorIndex}
    \cup {timeIndex[i].hash : i \in 1..Len(timeIndex)}

\* the analysis is indexed under each of its files, its author and its timestamp
indexed(a) ==
    /\ \A i \in 1..Len(a.files) : seqHas(mapGet(fileIndex, a.files[i]), a.commitHash)
    /\ seqHas(mapGet(authorIndex, a.author), a.commitHash)
    /\ \E i \in 1..Len(timeIndex) :
          timeIndex[i].timestamp = a.timestamp /\ timeIndex[i].hash = a.commitHash

\* C28: after any sequence of addAnalysis, pruneOldContext, clear and importContext
\* calls the indices agree with the store: every commit hash held in fileIndex,
\* authorIndex or timeIndex is a key of analyses, and every stored analysis is indexed
\* under each of its files, its author and its timestamp, also when a commit hash is
\* added twice with different data and when two analyses share a timestamp.
C28_IndicesAgreeWithStore ==
    ppc = "context"
    => /\ indexedHashes \subseteq storedHashes
       /\ \A i \in 1..Len(analyses) : indexed(analyses[i])

\* a commit hash was added twice with different files and then evicted: the index of
\* the file it was first added with still holds the hash
C28_EvictedHashInFileIndex ==
    /\ after({"addAnalysis"})
    /\ \E f \in DOMAIN fileIndex : \E i \in 1..Len(fileIndex[f]) :
          fileIndex[f][i] \notin storedHashes

\* C29: after any sequence of calls, getRelatedContext(h) returns at most 10 results,
\* every result is an analysis stored in the manager (none is undefined or evicted),
\* none is the analysis of commit h, and totalCount is the number of results.
C29_RelatedAreStored ==
    after({"getRelatedContext"})
    => /\ lastCall.results.ok
       /\ Len(lastCall.results.results) <= MaxResults
       /\ lastCall.results.totalCount = Len(lastCall.results.results)
       /\ \A i \in 1..Len(lastCall.results.results) :
             /\ lastCall.results.results[i] # <<>>
             /\ seqHas(analyses, lastCall.results.results[i][1])
             /\ lastCall.results.results[i][1].commitHash # lastCall.arg[1]

\* getRelatedContext has found, in the index of a file of the commit, a hash that is
\* no longer a key of analyses: its results hold undefined and the call throws
C29_UndefinedResult ==
    /\ after({"getRelatedContext"})
    /\ ~lastCall.results.ok
    /\ seqHas(lastCall.results.results, <<>>)
    /\ \E i \in 1..Len(analyses) :
          /\ analyses[i].commitHash = lastCall.arg[1]
          /\ \E f \in 1..Len(analyses[i].files) :
                \E x \in Range(mapGet(fileIndex, analyses[i].files[f])) : x \notin storedHashes

\* the last call was importContext(exportContext()) on a manager whose stored
\* analyses were all within maxContextAge
roundTripped ==
    /\ after({"importContext"})
    /\ lastCall.arg = lastCall.before.analyses
    /\ \A i \in 1..Len(lastCall.arg) : lastCall.at - lastCall.arg[i].timestamp <= MaxContextAge

\* C30: export and import round-trip: for a manager whose stored analyses are all
\* within maxContextAge, importContext(exportContext()) into a manager of the same
\* configuration gives a manager whose exportContext() returns the same analyses in the
\* same order and whose getStats() returns the same totals.
C30_RoundTrip ==
    roundTripped
    => /\ exportContext(manager) = lastCall.before.analyses
       /\ getStats(manager) = lastCall.before.stats

\* the export of a manager was imported: the analyses are the same, in the same order,
\* and getStats counts fewer files than before, the index of a file having held only
\* hashes left behind
C30_StatsDifferAfterRoundTrip ==
    /\ roundTripped
    /\ lastCall.arg # <<>>
    /\ exportContext(manager) = lastCall.before.analyses
    /\ getStats(manager).totalAnalyses = lastCall.before.stats.totalAnalyses
    /\ getStats(manager).uniqueFiles < lastCall.before.stats.uniqueFiles

-----------------------------------------------------------------------------
(* getFileContentStreaming of src/utils/secure-git.ts: git show is spawned and its
   stdout is collected chunk by chunk up to options.maxBytes. The handlers of the data,
   close and error events and of the timer run one at a time, in the order the events
   are delivered. *)
MaxBytes == 3
MaxChunks == 3
MaxChunkSize == 2

\* the bytes git show would write if it ran to its end, all ASCII
OutputBytes == <<"a", "b", "c", "d", "e", "f", "g", "h", "i", "j", "k", "l", "m", "n", "o", "p">>

TruncationNotice == <<"\n", "\n", "[", "C", "o", "n", "t", "e", "n", "t", " ", "t", "r", "u", "n", "c", "a", "t", "e", "d", " ", "d", "u", "e", " ", "t", "o", " ", "s", "i", "z", "e", " ", "l", "i", "m", "i", "t", "]">>

FatalMessage == <<"f", "a", "t", "a", "l", ":", " ", "b", "a", "d", " ", "o", "b", "j", "e", "c", "t", " ", "H", "E", "A", "D", ":", "x", ".", "t", "s", "\n">>
WarningMessage == <<"w", "a", "r", "n", "i", "n", "g", ":", " ", "r", "e", "f", "n", "a", "m", "e", " ", "i", "s", " ", "a", "m", "b", "i", "g", "u", "o", "u", "s", "\n">>

\* a promise settles once: resolve and reject of a settled promise change nothing
settle(p, outcome) == IF p.state = "pending" THEN outcome ELSE p
resolved(value) == [state |-> "resolved", value |-> value]
rejected(reason) == [state |-> "rejected", value |-> reason]

\* chunk.subarray(0, n)
subarray(chunk, n) == SubSeq(chunk, 1, n)

\* Buffer.concat(chunks).toString('utf8') of ASCII bytes
bufferConcat(list) == Flatten(list)

\* the handler of git.stdout 'data'
onStdoutData(st, chunk) ==
    LET chunkSize == Len(chunk)
        remainingBytes == st.maxBytes - st.totalSize
    IN  IF st.totalSize + chunkSize > st.maxBytes
        THEN IF remainingBytes > 0
             THEN [st EXCEPT !.chunks = Append(@, subarray(chunk, remainingBytes)),
                             !.totalSize = st.maxBytes,
                             !.truncated = TRUE]
             ELSE [st EXCEPT !.truncated = TRUE]
        ELSE [st EXCEPT !.chunks = Append(@, chunk),
                        !.totalSize = @ + chunkSize]

\* the outcome of the first handler of 'close'
onClose(st, code) ==
    IF code = <<0>> \/ st.truncated
    THEN LET content == bufferConcat(st.chunks)
         IN  IF st.truncated
             THEN resolved(content \o TruncationNotice)
             ELSE resolved(content)
    ELSE rejected("Git command exited with code")

\* the chunks of sizes, cut one after the other from bytes
RECURSIVE chunksOf(_, _)
chunksOf(bytes, sizes) ==
    IF sizes = <<>> THEN <<>>
    ELSE <<SubSeq(bytes, 1, Head(sizes))>>
         \o chunksOf(SubSeq(bytes, Head(sizes) + 1, Len(bytes)), Tail(sizes))

ChunkSizes == SeqsUpTo(1..MaxChunkSize, MaxChunks)

InitStream ==
    /\ source = <<>> /\ diffText = <<>> /\ parsed = <<>> /\ extParsed = <<>>
    /\ changes = NoChanges /\ lineNumbers = <<>> /\ ppc = "stream"
    /\ IdleRender
    /\ IdleContext
    /\ IdleCommand
    /\ \E maxBytes \in 0..MaxBytes :
           stream = [chunks |-> <<>>, totalSize |-> 0, truncated |-> FALSE,
                     maxBytes |-> maxBytes]
    /\ \E sizes \in ChunkSizes, err \in {<<>>, <<WarningMessage>>, <<FatalMessage>>},
          exitCode \in {0, 128} :
           git = [output |-> SubSeq(OutputBytes, 1, SumSeq(sizes)),
                  stdout |-> chunksOf(OutputBytes, sizes),
                  stderr |-> err,
                  exitCode |-> exitCode,
                  killed |-> FALSE,
                  closed |-> FALSE]
    /\ promise = [state |-> "pending", value |-> <<>>]
    /\ timeoutId = "armed"

StreamIdle ==
    /\ UNCHANGED parserVars /\ UNCHANGED renderVars /\ UNCHANGED contextVars
    /\ UNCHANGED commandVars

\* git.stdout emits 'data' with the next chunk git show has written
StdoutData ==
    /\ ppc = "stream" /\ ~git.closed /\ git.stdout # <<>>
    /\ stream' = onStdoutData(stream, Head(git.stdout))
    /\ git' = [git EXCEPT !.stdout = Tail(@),
                          !.killed = @ \/ stream'.truncated]
    /\ UNCHANGED <<promise, timeoutId>>
    /\ StreamIdle

\* git.stderr emits 'data'
StderrData ==
    /\ ppc = "stream" /\ ~git.closed /\ git.stderr # <<>>
    /\ LET errorMsg == Head(git.stderr)
       IN  IF includes(errorMsg, <<"f", "a", "t", "a", "l", ":">>)
           THEN /\ git' = [git EXCEPT !.stderr = Tail(@), !.killed = TRUE]
                /\ promise' = settle(promise, rejected("Git error"))
           ELSE /\ git' = [git EXCEPT !.stderr = Tail(@)]
                /\ UNCHANGED promise
    /\ UNCHANGED <<stream, timeoutId>>
    /\ StreamIdle

\* the child emits 'close': by itself with its exit code once it has written all it
\* had to write, or with code null at any moment after it was sent SIGTERM; both
\* handlers of 'close' run
Close ==
    /\ ppc = "stream" /\ ~git.closed
    /\ \E code \in {<<git.exitCode>>, <<>>} :
           /\ IF code = <<>> THEN git.killed
              ELSE git.stdout = <<>> /\ git.stderr = <<>>
           /\ promise' = settle(promise, onClose(stream, code))
    /\ git' = [git EXCEPT !.closed = TRUE]
    /\ timeoutId' = IF timeoutId = "armed" THEN "cleared" ELSE timeoutId
    /\ UNCHANGED stream
    /\ StreamIdle

\* the child emits 'error'
GitError ==
    /\ ppc = "stream" /\ ~git.closed
    /\ promise' = settle(promise, rejected("Git spawn error"))
    /\ UNCHANGED <<stream, git, timeoutId>>
    /\ StreamIdle

\* the timer set for options.timeout fires
Timeout ==
    /\ ppc = "stream" /\ timeoutId = "armed"
    /\ timeoutId' = "fired"
    /\ git' = [git EXCEPT !.killed = TRUE]
    /\ promise' = settle(promise, rejected("Git command timed out"))
    /\ UNCHANGED stream
    /\ StreamIdle

NextStream == StdoutData \/ StderrData \/ Close \/ GitError \/ Timeout

SpecStream == InitStream /\ [][NextStream]_vars

bufferedBytes == SumSeq([i \in 1..Len(stream.chunks) |-> Len(stream.chunks[i])])

\* the limit was hit: git show had written more than options.maxBytes bytes to the
\* handler of 'data'
limitHit == stream.truncated

-----------------------------------------------------------------------------
\* C24: in getFileContentStreaming, under every order of the stdout data events, the
\* stderr events, close, error and the timeout, the number of bytes buffered is never
\* larger than options.maxBytes, and when the limit is hit the promise resolves with the
\* first maxBytes bytes of the output followed by the truncation notice.
C24_BoundedAndTruncationResolves ==
    /\ bufferedBytes <= stream.maxBytes
    /\ (limitHit /\ git.closed)
       => promise = resolved(SubSeq(git.output, 1, stream.maxBytes) \o TruncationNotice)

\* the buffer holds the first maxBytes bytes, the limit was hit, the timer fired before
\* the child closed, and the promise is rejected
C24_TruncatedButTimedOut ==
    /\ limitHit /\ git.closed
    /\ bufferConcat(stream.chunks) = SubSeq(git.output, 1, stream.maxBytes)
    /\ stream.maxBytes > 0
    /\ timeoutId = "fired"
    /\ promise = rejected("Git command timed out")

-----------------------------------------------------------------------------
(* safeGitCommand of src/utils/secure-git.ts as the sequence of its steps: the check
   of the installation, the check of the repository, the trimming and the validation
   of the arguments, and the execution of the requested command. Every call of
   execFile('git', ...) is recorded with the function that made it. *)
NumArgDescs == 27
MaxGitCalls == 1

S_version == <<"-", "-", "v", "e", "r", "s", "i", "o", "n">>
S_init == <<"i", "n", "i", "t">>
S_clone == <<"c", "l", "o", "n", "e">>
S_revParse == <<"r", "e", "v", "-", "p", "a", "r", "s", "e">>
S_gitDir == <<"-", "-", "g", "i", "t", "-", "d", "i", "r">>
S_showToplevel == <<"-", "-", "s", "h", "o", "w", "-", "t", "o", "p", "l", "e", "v", "e", "l">>

execFile(site, argv) == [site |-> site, args |-> argv]

\* verifyGitInstallation: runs git --version, throws if that fails
verifyGitInstallation(env) ==
    [threw |-> ~env.installed,
     calls |-> <<execFile("verifyGitInstallation", <<S_version>>)>>]

requiresRepo(argv) == ~\E cmd \in {S_version, S_init, S_clone} : seqHas(argv, cmd)

\* validateRepository: for a command that needs a repository runs git rev-parse
\* --git-dir and, if that fails, git rev-parse --show-toplevel; throws if both fail
validateRepository(argv, env) ==
    IF ~requiresRepo(argv) THEN [threw |-> FALSE, calls |-> <<>>]
    ELSE IF env.gitDir
    THEN [threw |-> FALSE,
          calls |-> <<execFile("validateRepository", <<S_revParse, S_gitDir>>)>>]
    ELSE [threw |-> ~env.topLevel,
          calls |-> <<execFile("validateRepository", <<S_revParse, S_gitDir>>),
                      execFile("validateRepository", <<S_revParse, S_showToplevel>>)>>]

\* safeGitCommand(args, cwd): the calls of execFile it makes, in order, and whether it
\* throws
safeGitCommandSteps(argv, env) ==
    LET installation == verifyGitInstallation(env)
        repository == validateRepository(argv, env)
        sanitizedArgs == sanitizeArguments(argv)
    IN  IF installation.threw THEN installation
        ELSE IF repository.threw
        THEN [threw |-> TRUE, calls |-> installation.calls \o repository.calls]
        ELSE IF ~validateSecurity(sanitizedArgs)
        THEN [threw |-> TRUE, calls |-> installation.calls \o repository.calls]
        ELSE [threw |-> ~env.succeeds,
              calls |-> installation.calls \o repository.calls
                        \o <<execFile("safeGitCommand", sanitizedArgs)>>]

ArgPool ==
    << <<" ", "H", "E", "A", "D", ":", "x", ".", "t", "s", " ">>,
       <<>>,
       <<" ", " ">>,
       <<"a", ";", "b">>,
       <<"a", "&", "b">>,
       <<"a", "|", "b">>,
       <<"a", Backquote, "b">>,
       <<"$", "x">>,
       <<"(", "x">>,
       <<"x", ")">>,
       <<"{", "x">>,
       <<"x", "}">>,
       <<"[", "x">>,
       <<"x", "]">>,
       <<"<", "x">>,
       <<"x", ">">>,
       <<"-", "-", "f", "o", "r", "m", "a", "t", "=", "%", "H", "|", "%", "h">>,
       <<"-", "-", "f", "o", "r", "m", "a", "t", "=", "%", "H", ";", "%", "h">>,
       <<"-", "-", "p", "r", "e", "t", "t", "y", "=", "a", "|", "b">>,
       <<" ", "-", "-", "p", "r", "e", "t", "t", "y", "=", "$", "(", "x", ")">>,
       <<".", ".", "/", "x">>,
       <<".", ".", "\\", "x">>,
       <<"a", NullByte, "b">>,
       <<"-", "-", "v", "e", "r", "s", "i", "o", "n">>,
       <<".", ".">>,
       <<" ", ".", ".", "/", "x", " ">>,
       <<"|", "-", "-", "f", "o", "r", "m", "a", "t", "=", "x">>,
       <<"x", " ", "|", " ", "y">> >>

Args == {ArgPool[i] : i \in 1..NumArgDescs}

ArgLists ==
    {<<a>> : a \in Args} \cup {<<S_show, a>> : a \in Args} \cup {<<a, S_show>> : a \in Args}

Environments ==
    [installed : BOOLEAN, gitDir : BOOLEAN, topLevel : BOOLEAN, succeeds : BOOLEAN]

InitCommand ==
    /\ source = <<>> /\ diffText = <<>> /\ parsed = <<>> /\ extParsed = <<>>
    /\ changes = NoChanges /\ lineNumbers = <<>> /\ ppc = "command"
    /\ IdleRender
    /\ IdleContext
    /\ stream = <<>> /\ git = <<>> /\ promise = <<>> /\ timeoutId = "none"
    /\ executed = <<>>
    /\ gitResult = [count |-> 0, args |-> <<>>, threw |-> FALSE, from |-> 1]

SafeGitCommand ==
    /\ ppc = "command" /\ gitResult.count < MaxGitCalls
    /\ \E argv \in ArgLists, env \in Environments :
           LET steps == safeGitCommandSteps(argv, env)
           IN  /\ executed' = executed \o steps.calls
               /\ gitResult' = [count |-> gitResult.count + 1, args |-> argv,
                                threw |-> steps.threw, from |-> Len(executed) + 1]
    /\ UNCHANGED parserVars /\ UNCHANGED renderVars /\ UNCHANGED contextVars
    /\ UNCHANGED streamVars

NextCommand == SafeGitCommand

SpecCommand == InitCommand /\ [][NextCommand]_vars

\* the execFile calls of the last safeGitCommand that run the requested command
requestedRuns ==
    LET own == SubSeq(executed, gitResult.from, Len(executed))
        isRequested(e) == e.site = "safeGitCommand"
    IN  SelectSeq(own, isRequested)

\* an argument the call is to refuse: empty after trimming, or holding one of
\* ; & ` $ ( ) { } [ ] < > or a | outside a --format= or --pretty= argument, or ../ or
\* ..\ or a null byte
refusedCharacters == {";", "&", Backquote, "$", "(", ")", "{", "}", "[", "]", "<", ">"}

refused(arg) ==
    LET t == trim(arg)
        isFormat == startsWith(t, S_formatEq) \/ startsWith(t, S_prettyEq)
    IN  \/ t = <<>>
        \/ \E i \in 1..Len(t) : t[i] \in refusedCharacters
        \/ (~isFormat /\ \E i \in 1..Len(t) : t[i] = "|")
        \/ includes(t, <<".", ".", "/">>)
        \/ includes(t, <<".", ".", "\\">>)
        \/ \E i \in 1..Len(t) : t[i] = NullByte

-----------------------------------------------------------------------------
\* C25: safeGitCommand executes the requested git command only after every argument has
\* been trimmed and has passed validation: if an argument is empty after trimming, holds
\* one of ; & ` $ ( ) { } [ ] < > (or | outside a --format=/--pretty= argument), holds
\* '../' or '..\', or holds a null byte, the call throws and the requested command is
\* never executed.
C25_ValidatedBeforeExecuted ==
    /\ gitResult.count > 0
       => /\ (\E i \in 1..Len(gitResult.args) : refused(gitResult.args[i]))
             => (gitResult.threw /\ requestedRuns = <<>>)
          /\ \A k \in 1..Len(requestedRuns) :
                requestedRuns[k].args
                    = [i \in 1..Len(gitResult.args) |-> trim(gitResult.args[i])]
    /\ \A k \in 1..Len(executed) :
          executed[k].site = "safeGitCommand"
          => \A i \in 1..Len(executed[k].args) : ~refused(executed[k].args[i])

\* a call whose second argument holds a | outside a format argument threw after the
\* checks of the installation and of the repository had run git, and the requested
\* command was not run
C25_Witness ==
    /\ gitResult.count > 0
    /\ Len(gitResult.args) = 2
    /\ ~refused(gitResult.args[1])
    /\ refused(gitResult.args[2])
    /\ \E i \in 1..Len(gitResult.args[2]) : gitResult.args[2][i] = "|"
    /\ gitResult.threw
    /\ Len(executed) - gitResult.from + 1 = 2
    /\ requestedRuns = <<>>

\* a call with a padded argument ran the requested command with the argument trimmed
C25_TrimmedRun ==
    /\ gitResult.count > 0
    /\ Len(requestedRuns) = 1
    /\ requestedRuns[1].args # gitResult.args

\* the removed lines of the hunks of file k of the diff, in order
removedOfSource(k) ==
    LET isRemoved(l) == l[1] = "-"
    IN  Flatten([h \in 1..Len(source.files[k].hunks)
                    |-> SelectSeq(source.files[k].hunks[h].body, isRemoved)])

\* how often the removed line l is in the block of file k
removedInBlock(k, l) ==
    Cardinality({i \in 1..Len(block(k)) : block(k)[i].kind = "removed" /\ block(k)[i].s = l})

\* C26: in the full-mode reconstruction of a modified, renamed or copied file without
\* truncation every removed line of every hunk is in the output exactly once: none is
\* lost when two runs of removed lines map to the same after-line number, when a hunk has
\* newCount = 0 or newStart = 0, or when a run maps beyond the last after-file line.
C26_EveryRemovedLineOnce ==
    \A k \in RenderedFiles :
        extReconstructed(k)
        => \A i \in 1..Len(removedOfSource(k)) :
              removedInBlock(k, removedOfSource(k)[i])
                  = Cardinality({j \in 1..Len(removedOfSource(k)) :
                                    removedOfSource(k)[j] = removedOfSource(k)[i]})

\* the extension has reconstructed a file that the change empties: its one hunk has
\* newStart = 0 and newCount = 0, and none of its removed lines is in the block
C26_RemovedLinesLost ==
    /\ Len(parsed) = 1
    /\ extReconstructed(1)
    /\ Len(parsed[1].hunks) = 1
    /\ parsed[1].hunks[1].newStart = 0
    /\ parsed[1].hunks[1].newCount = 0
    /\ removedOfSource(1) # <<>>
    /\ \A i \in 1..Len(block(1)) : block(1)[i].kind # "removed"

\* the extension has reconstructed a file with two hunks whose runs of removed lines
\* map to the same after-line: the run of the first hunk is not in the block
C26_RunOverwritten ==
    /\ Len(parsed) = 1
    /\ extReconstructed(1)
    /\ Len(source.files[1].hunks) = 2
    /\ \E i \in removedRunStarts(source.files[1].hunks[1]) :
          /\ removedInBlock(1, source.files[1].hunks[1].body[i]) = 0
          /\ removedInBlock(1, source.files[1].hunks[2].body[1]) = 1

-----------------------------------------------------------------------------
\* The two parsers run on one text: diffs as git writes them, alone and followed by a
\* corrupt tail
InitParsers == InitParser \/ InitCorrupt

Ext_splitByFile ==
    /\ ppc \in {"text", "parsed"}
    /\ extParsed = <<>>
    /\ extParsed' = <<ext_splitByFile(diffText)>>
    /\ UNCHANGED <<source, diffText, parsed, changes, lineNumbers, ppc>>
    /\ UNCHANGED renderVars
    /\ UNCHANGED contextVars
    /\ UNCHANGED streamVars
    /\ UNCHANGED commandVars

NextParsers == Parse \/ Ext_splitByFile

SpecParsers == InitParsers /\ [][NextParsers]_vars

\* the fields the two DiffHunk results have in common
hunkFields(h) ==
    [header |-> h.header, lines |-> h.lines, oldStart |-> h.oldStart,
     oldCount |-> h.oldCount, newStart |-> h.newStart, newCount |-> h.newCount]

\* the fields the two DiffFile results have in common
fileFields(f) ==
    [status |-> f.status, pathA |-> f.pathA, pathB |-> f.pathB, isBinary |-> f.isBinary,
     renameFrom |-> f.renameFrom, renameTo |-> f.renameTo, header |-> f.header,
     body |-> f.body, hunks |-> [i \in 1..Len(f.hunks) |-> hunkFields(f.hunks[i])]]

bothParsed == ppc = "parsed" /\ extParsed # <<>>

\* C27: the two copies of the parser agree on every input: DiffParser.splitByFile and
\* parseHunks and those of the extension return the same number of files in the same
\* order with equal status, pathA, pathB, isBinary, renameFrom, renameTo, header, body
\* and hunks (header, lines, oldStart, oldCount, newStart, newCount), and in the result
\* of DiffParser the alias fields equal their canonical fields (oldPath = pathA,
\* newPath = pathB, oldLines = oldCount, newLines = newCount).
C27_ParsersAgree ==
    bothParsed
    => /\ Len(parsed) = Len(extParsed[1])
       /\ \A k \in 1..Len(parsed) :
             /\ fileFields(parsed[k]) = fileFields(extParsed[1][k])
             /\ parsed[k].oldPath = parsed[k].pathA
             /\ parsed[k].newPath = parsed[k].pathB
             /\ \A i \in 1..Len(parsed[k].hunks) :
                   /\ parsed[k].hunks[i].oldLines = parsed[k].hunks[i].oldCount
                   /\ parsed[k].hunks[i].newLines = parsed[k].hunks[i].newCount

\* both parsers have run on a diff of two files, the first with two hunks, followed by
\* a tail whose hunk header does not match the pattern
C27_Witness ==
    /\ bothParsed
    /\ "tail" \in DOMAIN source
    /\ Len(parsed) = 2 /\ Len(extParsed[1]) = 2
    /\ Len(extParsed[1][1].hunks) = 2
    /\ \E i \in 1..Len(extParsed[1][2].hunks) :
          ~matchHunkHeader(extParsed[1][2].hunks[i].header).ok
             \/ (i > 1 /\ extParsed[1][2].hunks[i] = extParsed[1][2].hunks[i - 1])

=============================================================================
